---------------------------- MODULE Spec2Model ----------------------------
(***************************************************************************)
(* Model of the PromptPacker selection-and-rendering pipeline:             *)
(*   IntelligentFilter (class)     inclusion decision and directory walk   *)
(*   shouldIncludeFile (function)  the standalone inclusion decision       *)
(*   CodebaseProcessor             processDirectory / processFiles         *)
(*   OutputFormatter               escapeXml, formatDirectoryTree          *)
(*   extension.ts                  handlePackCode / packCodeFiles          *)
(*                                                                         *)
(* Text is a sequence of one-character strings.  A path is a sequence of   *)
(* segment names; the names come from a fixed universe whose attributes    *)
(* (extension, lower-cased form) are tabulated below.                      *)
(***************************************************************************)
EXTENDS Integers, Sequences, FiniteSets, TLC

VARIABLES
  mode,             \* which specification the behaviour belongs to
  pc,               \* position of the running handler
  config,           \* the configuration of the invocation
  disk,             \* the file system: size of every file
  dFile,            \* inclusion decision: the file asked about
  dClass,           \* inclusion decision: answer of IntelligentFilter.shouldIncludeFile
  dAlone,           \* inclusion decision: answer of the standalone shouldIncludeFile
  treeFiles,        \* buildDirectoryTree: the FileMetadata[] it is given
  projectStructure, \* buildDirectoryTree: the DirectoryNode[] it returns
  treeText,         \* formatDirectoryTree: the lines it returns
  escIn,            \* rendering of one file: its path and content
  escOut,           \* rendering of one file: what the two renderers emit
  packArgs,         \* handlePackCode: the command arguments
  combinedCode,     \* packCodeFiles: the snippets of the text being packed
  clipboard,        \* the clipboard
  message,          \* the last message shown to the user
  request,          \* processDirectory / processFiles: the call and its arguments
  filter,           \* CodebaseProcessor.filter
  todo,             \* processFiles: the file paths not yet analysed
  worklist,         \* analyzeDirectory: the entries still to be visited, depth first
  files,            \* analyzeDirectory: the FileMetadata collected so far
  allFiles,         \* processFiles: allFiles
  pending,          \* the classifyFile tasks that have not completed (indices)
  classifiedFiles,  \* the FileMetadata[] under classification
  result,           \* the ProcessingResult that is returned
  statusBarItem,    \* the status bar item: text and visibility
  timers,           \* pending setTimeout(() => statusBarItem.hide(), 3000)
  dirsRead,         \* the directories fs.readdir was called on
  error,            \* the error the call was rejected with
  sizeInput,        \* parseSize: the size string it is given
  parsed,           \* parseSize: what each size parser answers
  reads,            \* what reading each file yields, the same at every run
  outcomes,         \* repeated runs: the outcome of every run completed
  callArgs,         \* a single call of a function: its arguments
  callValue         \* a single call of a function: what it returned

decideVars == <<dFile, dClass, dAlone>>
treeVars == <<treeFiles, projectStructure, treeText>>
escVars == <<escIn, escOut>>
packVars == <<packArgs, combinedCode, clipboard, message>>

walkVars == <<filter, todo, worklist, files, allFiles, dirsRead>>
pipeVars == <<request, walkVars, pending, classifiedFiles, result, statusBarItem, timers, error>>

parseVars == <<sizeInput, parsed>>

\* the variables of the specifications of single calls
rerunVars == <<reads, outcomes>>
applyVars == <<callArgs, callValue>>
callVars == <<parseVars, rerunVars, applyVars>>

vars == <<mode, pc, config, disk, decideVars, treeVars, escVars, packVars, pipeVars, callVars>>

-----------------------------------------------------------------------------
(* Generic helpers                                                         *)

Range(s) == {s[i] : i \in 1..Len(s)}

RECURSIVE SumSeq(_)
SumSeq(s) == IF s = <<>> THEN 0 ELSE Head(s) + SumSeq(Tail(s))

RECURSIVE Pow10(_)
Pow10(n) == IF n = 0 THEN 1 ELSE 10 * Pow10(n - 1)

IsPrefix(p, s) == Len(p) <= Len(s) /\ SubSeq(s, 1, Len(p)) = p

Last(s) == s[Len(s)]

-----------------------------------------------------------------------------
(* Size strings                                                            *)

Digits == {"0", "1", "2", "3", "4", "5", "6", "7", "8", "9"}

DigitVal(c) ==
  CASE c = "0" -> 0 [] c = "1" -> 1 [] c = "2" -> 2 [] c = "3" -> 3
    [] c = "4" -> 4 [] c = "5" -> 5 [] c = "6" -> 6 [] c = "7" -> 7
    [] c = "8" -> 8 [] c = "9" -> 9

RECURSIVE NumVal(_)
NumVal(s) == IF s = <<>> THEN 0 ELSE NumVal(SubSeq(s, 1, Len(s) - 1)) * 10 + DigitVal(Last(s))

\* String.prototype.toLowerCase on the letters a size unit can contain
toLowerCase(c) ==
  CASE c = "B" -> "b" [] c = "K" -> "k" [] c = "M" -> "m" [] c = "G" -> "g"
    [] OTHER -> c

LowerStr(s) == [i \in 1..Len(s) |-> toLowerCase(s[i])]

\* end of the run of digits of s that starts at position i (i - 1 when there is none)
RECURSIVE DigitRun(_, _)
DigitRun(s, i) == IF i <= Len(s) /\ s[i] \in Digits THEN DigitRun(s, i + 1) ELSE i - 1

RECURSIVE SpaceRun(_, _)
SpaceRun(s, i) == IF i <= Len(s) /\ s[i] = " " THEN SpaceRun(s, i + 1) ELSE i - 1

\* /^(\d+(?:\.\d+)?)\s*(<units>)?$/i : the groups of the match, or ok = FALSE
SizeMatch(s, units) ==
  LET e1 == DigitRun(s, 1)
      hasFrac == e1 >= 1 /\ e1 + 1 <= Len(s) /\ s[e1 + 1] = "." /\ DigitRun(s, e1 + 2) >= e1 + 2
      e2 == IF hasFrac THEN DigitRun(s, e1 + 2) ELSE e1
      e3 == SpaceRun(s, e2 + 1)
      rest == LowerStr(SubSeq(s, e3 + 1, Len(s)))
  IN  IF e1 >= 1 /\ (rest = <<>> \/ rest \in units)
        THEN [ok |-> TRUE,
              int |-> SubSeq(s, 1, e1),
              frac |-> IF hasFrac THEN SubSeq(s, e1 + 2, e2) ELSE <<>>,
              unit |-> rest]
        ELSE [ok |-> FALSE, int |-> <<>>, frac |-> <<>>, unit |-> <<>>]

KB == 1024
MB == 1024 * 1024
GB == 1024 * 1024 * 1024

UnitB == <<"b">>
UnitKB == <<"k", "b">>
UnitMB == <<"m", "b">>
UnitGB == <<"g", "b">>

\* A parsed size is the rational num / den (parseFloat keeps the fraction);
\* err = TRUE stands for the thrown Error('Invalid size format').
SizeValue(m, mult) ==
  [err |-> FALSE,
   num |-> (NumVal(m.int) * Pow10(Len(m.frac)) + NumVal(m.frac)) * mult,
   den |-> Pow10(Len(m.frac))]

SizeError == [err |-> TRUE, num |-> 0, den |-> 1]

\* CodebaseProcessor.parseSize and IntelligentFilter.parseSize (same body)
parseSize(sizeStr) ==
  LET m == SizeMatch(sizeStr, {UnitB, UnitKB, UnitMB, UnitGB})
      unit == IF m.unit = <<>> THEN UnitB ELSE m.unit
      mult == CASE unit = UnitB -> 1 [] unit = UnitKB -> KB
                [] unit = UnitMB -> MB [] unit = UnitGB -> GB
  IN  IF ~m.ok THEN SizeError ELSE SizeValue(m, mult)

\* the standalone parseSize: no 'b' unit, kb when no unit, 100KB when no match
parseSizeAlone(sizeStr) ==
  LET m == SizeMatch(sizeStr, {UnitKB, UnitMB, UnitGB})
      unit == IF m.unit = <<>> THEN UnitKB ELSE m.unit
      mult == CASE unit = UnitGB -> GB [] unit = UnitMB -> MB [] unit = UnitKB -> KB
  IN  IF ~m.ok THEN [err |-> FALSE, num |-> 100 * KB, den |-> 1] ELSE SizeValue(m, mult)

\* n > ps and n <= ps for a byte count n and a parsed size ps
SizeGt(n, ps) == n * ps.den > ps.num
SizeLe(n, ps) == n * ps.den <= ps.num

-----------------------------------------------------------------------------
(* Names and paths                                                         *)

Root == <<"ws">>                      \* the workspace root

\* path.extname(name).toLowerCase() on the names of the universe
extname(name) ==
  CASE name \in {"index.ts", "app.ts", "util.ts"} -> ".ts"
    [] name \in {"package.json", "ci.json", "tsconfig.json"} -> ".json"
    [] name \in {"README.md", "guide.md"} -> ".md"
    [] name = "logo.png" -> ".png"
    [] name = "debug.log" -> ".log"
    [] OTHER -> ""

\* path.basename(filePath).toLowerCase()
basenameLower(name) == IF name = "README.md" THEN "readme.md" ELSE name

\* a name that begins with '.'
Hidden(name) == name \in {".github", ".env"}

\* path.relative(root, p) for p below root
relative(root, p) == IF IsPrefix(root, p) THEN SubSeq(p, Len(root) + 1, Len(p)) ELSE p

\* path.join(dir, name)
join(dir, name) == Append(dir, name)

\* path.dirname(p)
dirname(p) == SubSeq(p, 1, Len(p) - 1)

-----------------------------------------------------------------------------
(* minimatch: a pattern is the sequence of its '/'-separated parts         *)

GLOBSTAR == "**"

StarExt(sp) ==
  CASE sp = "*.log" -> ".log" [] sp = "*.md" -> ".md"
    [] sp = "*.ts" -> ".ts" [] sp = "*.json" -> ".json" [] OTHER -> ""

\* one path part against one pattern part
SegMatch(name, sp, dot) ==
  CASE sp = "*" -> dot \/ ~Hidden(name)
    [] StarExt(sp) # "" -> extname(name) = StarExt(sp) /\ (dot \/ ~Hidden(name))
    [] sp = ".env*" -> name = ".env"
    [] OTHER -> name = sp

\* minimatch(path, pattern, {dot}); slash = the path was given with a trailing '/'
RECURSIVE minimatch(_, _, _, _)
minimatch(p, pat, dot, slash) ==
  IF pat = <<>> THEN p = <<>>
  ELSE IF Head(pat) = GLOBSTAR THEN
    IF Tail(pat) = <<>>
      THEN (p # <<>> \/ slash) /\ \A i \in 1..Len(p) : dot \/ ~Hidden(p[i])
      ELSE \E k \in 0..Len(p) :
             /\ \A i \in 1..k : dot \/ ~Hidden(p[i])
             /\ minimatch(SubSeq(p, k + 1, Len(p)), Tail(pat), dot, slash)
  ELSE p # <<>> /\ SegMatch(Head(p), Head(pat), dot)
                /\ minimatch(Tail(p), Tail(pat), dot, slash)

\* index of the first pattern of the list that matches, 0 when none does
FirstMatch(p, patterns, dot) ==
  IF \E i \in 1..Len(patterns) : minimatch(p, patterns[i], dot, FALSE)
    THEN CHOOSE i \in 1..Len(patterns) :
           /\ minimatch(p, patterns[i], dot, FALSE)
           /\ \A j \in 1..(i - 1) : ~minimatch(p, patterns[j], dot, FALSE)
    ELSE 0

-----------------------------------------------------------------------------
(* IntelligentFilter (class)                                               *)

\* the modelled part of the DEFAULT_EXCLUSIONS list, in the list's order
DEFAULT_EXCLUSIONS ==
  << <<"**", "node_modules", "**">>,
     <<"**", "dist", "**">>,
     <<"**", "*.log">>,
     <<"**", ".env*">>,
     <<"**", "test", "**">> >>

HIGH_SIGNAL_EXTENSIONS == {".ts", ".json", ".md", "package.json"}

BINARY_EXTENSIONS == {".png", ".pdf", ".zip"}

NoPriority == -1     \* priority: undefined

Exclude(why) == [threw |-> FALSE, include |-> FALSE, reason |-> why, priority |-> NoPriority]

Threw == [threw |-> TRUE, include |-> FALSE, reason |-> "Invalid size format", priority |-> NoPriority]

calculateFilePriority(extension, fileName, relativePath) ==
  LET p1 == 50 + (IF extension \in HIGH_SIGNAL_EXTENSIONS THEN 30 ELSE 0)
      p2 == p1 + (IF fileName \in {"readme.md", "package.json", "tsconfig.json"} THEN 40 ELSE 0)
      p3 == p2 + (IF Len(relativePath) > 1 /\ relativePath[1] \in {"src", "lib", "app"}
                    THEN 20 ELSE 0)
      p4 == p3 + (IF extension \in {".json", ".yaml", ".yml", ".toml"} THEN 15 ELSE 0)
      p5 == p4 + (IF extension \in {".ts", ".tsx", ".js", ".jsx"} THEN 25 ELSE 0)
      p6 == p5 + (IF extension \in {".py", ".pyi"} THEN 25 ELSE 0)
      p7 == p6 + (IF extension \in {".md", ".rst", ".txt"} THEN 10 ELSE 0)
  IN  IF p7 < 100 THEN p7 ELSE 100

\* the decision of the class without the test of stats.size against maxSizeBytes
shouldIncludeFileClass_noSizeLimit(flt, filePath, statSize) ==
  LET relativePath == relative(flt.config.root, filePath)
      extension == extname(Last(filePath))
      fileName == basenameLower(Last(filePath))
      maxSizeBytes == parseSize(flt.config.maxFileSize)
  IN  IF extension \in BINARY_EXTENSIONS THEN Exclude("Binary file")
      ELSE IF FirstMatch(relativePath, DEFAULT_EXCLUSIONS, FALSE) # 0
        THEN Exclude("Matched default exclusion")
      ELSE IF flt.config.respectGitignore
              /\ FirstMatch(relativePath, flt.gitignorePatterns, FALSE) # 0
        THEN Exclude("Matched .gitignore pattern")
      ELSE IF FirstMatch(relativePath, flt.config.ignore, FALSE) # 0
        THEN Exclude("Matched user ignore")
      ELSE IF Len(flt.config.include) > 0
              /\ FirstMatch(relativePath, flt.config.include, FALSE) = 0
        THEN Exclude("Did not match include patterns")
      ELSE IF maxSizeBytes.err THEN Threw
      ELSE [threw |-> FALSE, include |-> TRUE, reason |-> "",
            priority |-> calculateFilePriority(extension, fileName, relativePath)]

\* IntelligentFilter.shouldIncludeFile; statSize is what fs.statSync reports
shouldIncludeFileClass(flt, filePath, statSize) ==
  LET relativePath == relative(flt.config.root, filePath)
      extension == extname(Last(filePath))
      fileName == basenameLower(Last(filePath))
      maxSizeBytes == parseSize(flt.config.maxFileSize)
  IN  IF extension \in BINARY_EXTENSIONS THEN Exclude("Binary file")
      ELSE IF FirstMatch(relativePath, DEFAULT_EXCLUSIONS, FALSE) # 0
        THEN Exclude("Matched default exclusion")
      ELSE IF flt.config.respectGitignore
              /\ FirstMatch(relativePath, flt.gitignorePatterns, FALSE) # 0
        THEN Exclude("Matched .gitignore pattern")
      ELSE IF FirstMatch(relativePath, flt.config.ignore, FALSE) # 0
        THEN Exclude("Matched user ignore")
      ELSE IF Len(flt.config.include) > 0
              /\ FirstMatch(relativePath, flt.config.include, FALSE) = 0
        THEN Exclude("Did not match include patterns")
      ELSE IF maxSizeBytes.err THEN Threw
      ELSE IF SizeGt(statSize, maxSizeBytes) THEN Exclude("File too large")
      ELSE [threw |-> FALSE, include |-> TRUE, reason |-> "",
            priority |-> calculateFilePriority(extension, fileName, relativePath)]

\* IntelligentFilter.shouldIncludeDirectory
shouldIncludeDirectory(flt, dirPath) ==
  LET relativePath == relative(flt.config.root, dirPath)
  IN  ~\E i \in 1..Len(DEFAULT_EXCLUSIONS) :
          \/ minimatch(relativePath, DEFAULT_EXCLUSIONS[i], FALSE, FALSE)
          \/ minimatch(relativePath, DEFAULT_EXCLUSIONS[i], FALSE, TRUE)

-----------------------------------------------------------------------------
(* The standalone inclusion decision                                       *)

\* getFileExtension: relativePath.split('.').pop().toLowerCase(), on the
\* universe's names (no directory name of the universe holds a '.' after
\* which a '/' follows, except the hidden ones)
getFileExtension(relativePath) ==
  LET e == extname(Last(relativePath))
  IN  CASE e = ".ts" -> "ts" [] e = ".json" -> "json" [] e = ".md" -> "md"
        [] e = ".png" -> "png" [] e = ".log" -> "log"
        [] OTHER -> Last(relativePath)

Decision(inc, why) == [include |-> inc, reason |-> why]

\* the standalone decision with the high-priority rule moved above the ignore rule
shouldIncludeFile_highPriorityFirst(relativePath, cfg, fileSize) ==
  LET maxFileBytes == parseSizeAlone(cfg.maxFileSize)
      fileExtension == getFileExtension(relativePath)
  IN  IF SizeGt(fileSize, maxFileBytes) THEN Decision(FALSE, "File size exceeds max size")
      ELSE IF FirstMatch(relativePath, cfg.highPriorityPatterns, TRUE) # 0
        THEN Decision(TRUE, "High-priority match")
      ELSE IF FirstMatch(relativePath, cfg.ignore, TRUE) # 0
        THEN Decision(FALSE, "Ignored by pattern")
      ELSE IF Len(cfg.includePatterns) > 0
              /\ FirstMatch(relativePath, cfg.includePatterns, TRUE) # 0
        THEN Decision(TRUE, "Matched include pattern")
      ELSE IF fileExtension # "" /\ fileExtension \in Range(cfg.includeExtensions)
        THEN Decision(TRUE, "Extension is in include list")
      ELSE Decision(FALSE, "No matching criteria")

\* shouldIncludeFile(relativePath, config, fileSize)
shouldIncludeFile(relativePath, cfg, fileSize) ==
  LET maxFileBytes == parseSizeAlone(cfg.maxFileSize)
      fileExtension == getFileExtension(relativePath)
  IN  IF SizeGt(fileSize, maxFileBytes) THEN Decision(FALSE, "File size exceeds max size")
      ELSE IF FirstMatch(relativePath, cfg.ignore, TRUE) # 0
        THEN Decision(FALSE, "Ignored by pattern")
      ELSE IF FirstMatch(relativePath, cfg.highPriorityPatterns, TRUE) # 0
        THEN Decision(TRUE, "High-priority match")
      ELSE IF Len(cfg.includePatterns) > 0
              /\ FirstMatch(relativePath, cfg.includePatterns, TRUE) # 0
        THEN Decision(TRUE, "Matched include pattern")
      ELSE IF fileExtension # "" /\ fileExtension \in Range(cfg.includeExtensions)
        THEN Decision(TRUE, "Extension is in include list")
      ELSE Decision(FALSE, "No matching criteria")

\* IntelligentFilter.loadGitignorePatterns: one .gitignore line -> one glob.
\* A line is [parts, dir (ends with '/'), anchored (starts with '/')].
gitignoreToGlob(line) ==
  IF line.dir THEN <<GLOBSTAR>> \o line.parts \o <<GLOBSTAR>>
  ELSE IF line.anchored THEN line.parts
  ELSE <<GLOBSTAR>> \o line.parts

loadGitignorePatterns(lines) == [i \in 1..Len(lines) |-> gitignoreToGlob(lines[i])]

\* FilterConfig.maxDepth left undefined
NoDepth == -1

\* new IntelligentFilter(config), the .gitignore of the root holding `lines`
NewFilter(cfg, root, lines) ==
  [config |-> [root |-> root, ignore |-> cfg.ignore, include |-> cfg.include,
               maxFileSize |-> cfg.maxFileSize, respectGitignore |-> TRUE,
               maxDepth |-> NoDepth],
   gitignorePatterns |-> loadGitignorePatterns(lines)]

-----------------------------------------------------------------------------
(* Inputs of the inclusion decision                                        *)

Str1 == <<"1">>
Str100kb == <<"1", "0", "0", "k", "b">>
Str2KB == <<"2", " ", "K", "B">>
StrBad == <<"b", "i", "g">>

DecidePaths ==
  { <<"README.md">>, <<"package.json">>, <<"logo.png">>, <<"debug.log">>,
    <<"src", "index.ts">>, <<"src", "notes">>, <<"docs", "guide.md">>,
    <<"node_modules", "index.ts">>, <<".github", "ci.json">> }

DecideSizes == {1, 2000, 200000}

IgnoreChoices == { <<>>, << <<"docs", "**">> >>, << <<"**", "*.md">>, <<"**", "*.json">> >> }
IncludeChoices == { <<>>, << <<"src", "**">>, <<"**", "*.md">> >> }
HighPriorityChoices == { <<>>, << <<"README.md">>, <<"**", "package.json">>, <<"docs", "**">> >> }
IncludePatternChoices == { <<>>, << <<"src", "**">> >> }
IncludeExtensionChoices == { <<>>, <<"ts", "md", "json">> }
GitignoreChoices == { <<>>, << [parts |-> <<"docs">>, dir |-> TRUE, anchored |-> FALSE] >> }
MaxFileSizeChoices == {Str1, Str100kb, StrBad}

NoDecision == [threw |-> FALSE, include |-> FALSE, reason |-> "none", priority |-> NoPriority]
NoFile == [path |-> <<>>, size |-> 0, gitignore |-> <<>>]
NoConfig == [ignore |-> <<>>, include |-> <<>>, highPriorityPatterns |-> <<>>,
             includePatterns |-> <<>>, includeExtensions |-> <<>>,
             maxFileSize |-> <<>>, maxTotalSize |-> <<>>]

NoDisk == <<>>
NoText == [path |-> <<>>, content |-> <<>>]
NoOutput == [ai |-> [path |-> <<>>, lines |-> <<>>], combined |-> [path |-> <<>>, lines |-> <<>>]]

DecideIdle == dFile = NoFile /\ dClass = NoDecision /\ dAlone = Decision(FALSE, "none")
TreeIdle == treeFiles = <<>> /\ projectStructure = <<>> /\ treeText = <<>>
EscIdle == escIn = NoText /\ escOut = NoOutput
PackIdle == packArgs = <<>> /\ combinedCode = <<>> /\ clipboard = <<>> /\ message = ""

NoRequest == [op |-> "none", dirPath |-> <<>>, filePaths |-> <<>>]
NoFilter == [config |-> [root |-> <<>>, ignore |-> <<>>, include |-> <<>>, maxFileSize |-> <<>>,
                         respectGitignore |-> TRUE, maxDepth |-> NoDepth],
             gitignorePatterns |-> <<>>]
NoResult == [files |-> <<>>, totalSize |-> 0,
             contextMap |-> [projectStructure |-> <<>>, configFiles |-> <<>>,
                             coreFiles |-> <<>>, entryPoints |-> <<>>],
             overview |-> [entryPoints |-> <<>>],
             formattedOutput |-> [structure |-> <<>>, sourceFiles |-> <<>>, configuration |-> <<>>]]
NoError == [kind |-> "", path |-> <<>>]
HiddenBar == [text |-> "", visible |-> FALSE]

PipeIdle ==
  /\ request = NoRequest /\ filter = NoFilter /\ todo = <<>> /\ worklist = <<>>
  /\ files = <<>> /\ allFiles = <<>> /\ pending = {} /\ classifiedFiles = <<>>
  /\ result = NoResult /\ statusBarItem = HiddenBar /\ timers = 0
  /\ dirsRead = {} /\ error = NoError

NoParsed == [class |-> [err |-> FALSE, num |-> 0, den |-> 1],
             alone |-> [err |-> FALSE, num |-> 0, den |-> 1]]
ParseIdle == sizeInput = <<>> /\ parsed = NoParsed

RerunIdle == reads = <<>> /\ outcomes = <<>>

ApplyIdle == callArgs = <<>> /\ callValue = <<>>

CallIdle == ParseIdle /\ RerunIdle /\ ApplyIdle

InitDecide ==
  /\ mode = "decide"
  /\ pc = "ask"
  /\ \E ig \in IgnoreChoices, inc \in IncludeChoices, hp \in HighPriorityChoices,
        ip \in IncludePatternChoices, ie \in IncludeExtensionChoices,
        mfs \in MaxFileSizeChoices :
       config = [ignore |-> ig, include |-> inc, highPriorityPatterns |-> hp,
                 includePatterns |-> ip, includeExtensions |-> ie,
                 maxFileSize |-> mfs, maxTotalSize |-> Str100kb]
  /\ \E p \in DecidePaths, sz \in DecideSizes, gi \in GitignoreChoices :
       dFile = [path |-> Root \o p, size |-> sz, gitignore |-> gi]
  /\ dClass = NoDecision
  /\ dAlone = Decision(FALSE, "none")
  /\ disk = NoDisk
  /\ TreeIdle /\ EscIdle /\ PackIdle /\ PipeIdle /\ CallIdle

\* both inclusion decisions are asked about dFile
DecideFile ==
  /\ mode = "decide" /\ pc = "ask"
  /\ dClass' = shouldIncludeFileClass(NewFilter(config, Root, dFile.gitignore),
                                      dFile.path, dFile.size)
  /\ dAlone' = shouldIncludeFile(relative(Root, dFile.path), config, dFile.size)
  /\ pc' = "decided"
  /\ UNCHANGED <<mode, config, disk, dFile, treeVars, escVars, packVars, pipeVars, callVars>>

NextDecide == DecideFile

SpecDecide == InitDecide /\ [][NextDecide]_vars

dRel == relative(Root, dFile.path)

MatchesAny(p, patterns, dot) == FirstMatch(p, patterns, dot) # 0

HighPriorityBypassesSize ==
  (pc = "decided" /\ MatchesAny(dRel, config.highPriorityPatterns, TRUE)
                  /\ ~MatchesAny(dRel, config.ignore, TRUE))
    => dAlone.include

EarliestRuleClass ==
  IF extname(Last(dFile.path)) \in BINARY_EXTENSIONS THEN "Binary file"
  ELSE IF MatchesAny(dRel, DEFAULT_EXCLUSIONS, FALSE) THEN "Matched default exclusion"
  ELSE IF MatchesAny(dRel, loadGitignorePatterns(dFile.gitignore), FALSE)
    THEN "Matched .gitignore pattern"
  ELSE IF MatchesAny(dRel, config.ignore, FALSE) THEN "Matched user ignore"
  ELSE IF SizeGt(dFile.size, parseSize(config.maxFileSize)) THEN "File too large"
  ELSE IF Len(config.include) > 0 /\ ~MatchesAny(dRel, config.include, FALSE)
    THEN "Did not match include patterns"
  ELSE ""

\* ... and for the standalone decision (which has no block-list, no default
\* exclusions and no ignore-file rules)
EarliestRuleAlone ==
  IF MatchesAny(dRel, config.ignore, TRUE) THEN "Ignored by pattern"
  ELSE IF MatchesAny(dRel, config.highPriorityPatterns, TRUE) THEN "High-priority match"
  ELSE IF SizeGt(dFile.size, parseSizeAlone(config.maxFileSize))
    THEN "File size exceeds max size"
  ELSE IF MatchesAny(dRel, config.includePatterns, TRUE) THEN "Matched include pattern"
  ELSE IF getFileExtension(dRel) \in Range(config.includeExtensions)
    THEN "Extension is in include list"
  ELSE "No matching criteria"

\* C21: the inclusion decision reports the reason of the earliest matching
\* rule of that order: an oversize file that matches no include pattern is
\* reported as too large, an oversize file that matches a user ignore
\* pattern as ignored
EarliestRuleReported ==
  (mode = "decide" /\ pc = "decided" /\ ~dClass.threw /\ ~parseSize(config.maxFileSize).err)
    => /\ dClass.reason = EarliestRuleClass
       /\ dAlone.reason = EarliestRuleAlone

-----------------------------------------------------------------------------
(* Array.prototype.sort with a comparator a.k - b.k (stable)               *)

RECURSIVE InsertIdx(_, _, _)
InsertIdx(l, i, k) ==
  IF l = <<>> THEN <<i>>
  ELSE IF k[Head(l)] <= k[i] THEN <<Head(l)>> \o InsertIdx(Tail(l), i, k)
  ELSE <<i>> \o l

RECURSIVE SortIdx(_, _)
SortIdx(n, k) == IF n = 0 THEN <<>> ELSE InsertIdx(SortIdx(n - 1, k), n, k)

\* s sorted by ascending key k[i] of its i-th element, ties in their old order
StableSort(s, k) == LET idx == SortIdx(Len(s), k) IN [j \in 1..Len(s) |-> s[idx[j]]]

-----------------------------------------------------------------------------
(* FileMetadata                                                            *)

\* IntelligentFilter.analyzeFile: the metadata of one file
analyzeFile(flt, filePath, statSize) ==
  LET shouldInclude == shouldIncludeFileClass(flt, filePath, statSize)
  IN  [path |-> filePath,
       relativePath |-> relative(flt.config.root, filePath),
       size |-> statSize,
       extension |-> extname(Last(filePath)),
       priority |-> shouldInclude.priority,
       isIncluded |-> shouldInclude.include,
       exclusionReason |-> shouldInclude.reason,
       hasContent |-> FALSE, content |-> <<>>,          \* content: undefined
       hasScore |-> FALSE, relevanceScore |-> 0]        \* relevanceScore: undefined

\* JavaScript truthiness of f.content: defined and not the empty string
ContentTruthy(f) == f.hasContent /\ f.content # <<>>

\* (f.relevanceScore || 0), in percent
ScoreOrZero(f) == IF f.hasScore THEN f.relevanceScore ELSE 0

\* includedFiles.sort((a, b) => (b.relevanceScore || 0) - (a.relevanceScore || 0))
sortByRelevance(fs) == StableSort(fs, [i \in 1..Len(fs) |-> 0 - ScoreOrZero(fs[i])])

-----------------------------------------------------------------------------
(* FileClassifier.classifyFile                                             *)

IsSourceExt(e) == e \in {".ts", ".js"}
IsEntryName(n) == n \in {"index.ts", "app.ts", "main.ts"}
IsManifest(n) == n \in {"package.json", "tsconfig.json"}
IsDoc(n) == n = "README.md" \/ extname(n) = ".md"

baseRelevance(f) ==
  LET n == Last(f.path)
  IN  (IF IsSourceExt(f.extension) THEN 80 + (IF IsEntryName(n) THEN 20 ELSE 0) ELSE 0)
    + (IF IsManifest(n) THEN 90 ELSE 0)
    + (IF IsDoc(n) THEN 60 ELSE 0)

Clamp100(x) == IF x > 100 THEN 100 ELSE IF x < 0 THEN 0 ELSE x

\* read = [ok, text, mult]: the outcome of reading the content and the
\* relevance multiplier (percent) its analysis yields
classifyFile(f, read) ==
  IF ~f.isIncluded THEN f
  ELSE IF read.ok
    THEN [f EXCEPT !.hasContent = TRUE, !.content = read.text,
                   !.hasScore = TRUE,
                   !.relevanceScore = Clamp100((baseRelevance(f) * read.mult) \div 100)]
    ELSE [f EXCEPT !.hasScore = TRUE, !.relevanceScore = Clamp100(baseRelevance(f))]

-----------------------------------------------------------------------------
(* CodebaseProcessor.buildDirectoryTree / treeToArray                      *)
(*                                                                         *)
(* The accumulator is a nested object keyed by part name.  A directory     *)
(* node's `children` is created as an array ([]) and then used as such an  *)
(* object: a child is stored as the named property children[part], never   *)
(* as an array element.  A tree is therefore                               *)
(*   nodes : key (the parts from the root) -> node                         *)
(*   order : the keys in insertion order                                    *)
(* and each directory node of the returned array records separately the    *)
(* elements of its children array (elems) and the named properties of that *)
(* array (props).                                                          *)

NoTree == [nodes |-> <<>>, order |-> <<>>]

HasKey(tree, key) == \E i \in 1..Len(tree.order) : tree.order[i] = key

NodeAt(tree, key) == tree.nodes[CHOOSE i \in 1..Len(tree.order) : tree.order[i] = key]

\* current[part] = node, for the object reached by the parts of `key` before the last
PutNode(tree, key, node) ==
  IF HasKey(tree, key)
    THEN LET i == CHOOSE j \in 1..Len(tree.order) : tree.order[j] = key
         IN  [tree EXCEPT !.nodes[i] = node]
    ELSE [nodes |-> Append(tree.nodes, node), order |-> Append(tree.order, key)]

FileNode(part, file) ==
  [name |-> part, path |-> file.path, type |-> "file", metadata |-> file.relativePath,
   hasChildren |-> FALSE, elems |-> <<>>, props |-> <<>>]

DirNode(part, dirPath) ==
  [name |-> part, path |-> dirPath, type |-> "directory", metadata |-> <<>>,
   hasChildren |-> TRUE, elems |-> <<>>, props |-> <<>>]

\* parts.forEach((part, index) => ...) from position `index` on
RECURSIVE AddParts(_, _, _, _)
AddParts(tree, file, rootPath, index) ==
  LET parts == file.relativePath
      key == SubSeq(parts, 1, index)
  IN  IF index > Len(parts) THEN tree
      ELSE IF index = Len(parts)
        THEN PutNode(tree, key, FileNode(parts[index], file))
      ELSE LET t1 == IF ~HasKey(tree, key)
                       THEN PutNode(tree, key, DirNode(parts[index], rootPath \o key))
                       ELSE tree
               n1 == NodeAt(t1, key)
               t2 == IF ~n1.hasChildren
                       THEN PutNode(t1, key, [n1 EXCEPT !.hasChildren = TRUE, !.elems = <<>>])
                       ELSE t1
           IN  AddParts(t2, file, rootPath, index + 1)

RECURSIVE AddFiles(_, _, _)
AddFiles(tree, fileList, rootPath) ==
  IF fileList = <<>> THEN tree
  ELSE AddFiles(IF Head(fileList).isIncluded THEN AddParts(tree, Head(fileList), rootPath, 1) ELSE tree,
                Tail(fileList), rootPath)

\* a.name.localeCompare(b.name) as a rank on the names of the universe
NameRank(name) ==
  CASE name = ".github" -> 1 [] name = "app.ts" -> 2 [] name = "debug.log" -> 3
    [] name = "docs" -> 4 [] name = "guide.md" -> 5 [] name = "index.ts" -> 6
    [] name = "lib" -> 7 [] name = "logo.png" -> 8 [] name = "node_modules" -> 9
    [] name = "package.json" -> 10 [] name = "README.md" -> 11 [] name = "src" -> 12
    [] name = "src2" -> 13 [] name = "util.ts" -> 14 [] OTHER -> 15

\* treeToArray: Object.values(tree).sort(directories first, then by name)
treeToArray(nodeSeq) ==
  StableSort(nodeSeq, [i \in 1..Len(nodeSeq) |->
                         (IF nodeSeq[i].type = "directory" THEN 0 ELSE 100) + NameRank(nodeSeq[i].name)])

\* the node stored under `key`, with the nodes stored as named properties of
\* its children array (props), in insertion order
RECURSIVE WithProps(_, _)
WithProps(tree, key) ==
  LET kids == SelectSeq(tree.order,
                        LAMBDA k : Len(k) = Len(key) + 1 /\ SubSeq(k, 1, Len(key)) = key)
  IN  [NodeAt(tree, key) EXCEPT !.props = [j \in 1..Len(kids) |-> WithProps(tree, kids[j])]]

\* Object.values(root): the nodes stored directly in the root object
RootValues(tree) ==
  LET keys == SelectSeq(tree.order, LAMBDA k : Len(k) = 1)
  IN  [j \in 1..Len(keys) |-> WithProps(tree, keys[j])]

\* buildDirectoryTree(files, rootPath): the DirectoryNode[] that is returned
buildDirectoryTree(fileList, rootPath) == treeToArray(RootValues(AddFiles(NoTree, fileList, rootPath)))

\* the named properties left on the children arrays (not part of any list)
childProperties(fileList, rootPath) ==
  LET tree == AddFiles(NoTree, fileList, rootPath)
  IN  {tree.order[i] : i \in {j \in 1..Len(tree.order) : Len(tree.order[j]) > 1}}

-----------------------------------------------------------------------------
(* OutputFormatter.formatDirectoryTree                                     *)

\* one output line per node: [indent, name]; a node's children are rendered
\* only when node.children.length > 0
RECURSIVE formatDirectoryTree(_, _)
formatDirectoryTree(nodes, indent) ==
  IF nodes = <<>> THEN <<>>
  ELSE LET node == Head(nodes)
           own == << [indent |-> indent, name |-> node.name] >>
           sub == IF node.hasChildren /\ Len(node.elems) > 0
                    THEN formatDirectoryTree(node.elems, indent + 1)
                    ELSE <<>>
       IN  own \o sub \o formatDirectoryTree(Tail(nodes), indent)

\* the node reached from the list `nodes` by following `parts` through the
\* children lists; Missing when a part is in no list
Missing == [name |-> "", path |-> <<>>, type |-> "missing", metadata |-> <<>>,
            hasChildren |-> FALSE, elems |-> <<>>, props |-> <<>>]

RECURSIVE Follow(_, _)
Follow(nodes, parts) ==
  IF \E i \in 1..Len(nodes) : nodes[i].name = Head(parts)
    THEN LET n == nodes[CHOOSE i \in 1..Len(nodes) : nodes[i].name = Head(parts)]
         IN  IF Len(parts) = 1 THEN n ELSE Follow(n.elems, Tail(parts))
    ELSE Missing

\* every file node in the lists of a DirectoryNode[]
RECURSIVE FileNodes(_)
FileNodes(nodes) ==
  IF nodes = <<>> THEN {}
  ELSE (IF Head(nodes).type = "file" THEN {Head(nodes)} ELSE FileNodes(Head(nodes).elems))
       \cup FileNodes(Tail(nodes))

\* every file node of a DirectoryNode[], those held as named properties of a
\* children array included
RECURSIVE AllFileNodes(_)
AllFileNodes(nodes) ==
  IF nodes = <<>> THEN {}
  ELSE (IF Head(nodes).type = "file" THEN {Head(nodes)}
        ELSE AllFileNodes(Head(nodes).elems) \cup AllFileNodes(Head(nodes).props))
       \cup AllFileNodes(Tail(nodes))

\* buildFileTree, the loop over the parts of one relative path from the i-th
\* on, below `node`: find the child of that name or push a new one
RECURSIVE addPathParts(_, _, _)
addPathParts(node, parts, i) ==
  IF i > Len(parts) \/ ~node.hasChildren THEN node
  ELSE LET found == {k \in 1..Len(node.elems) : node.elems[k].name = parts[i]}
           isFile == i = Len(parts)
           childNode == [name |-> parts[i],
                         path |-> SubSeq(parts, 1, i),
                         type |-> IF isFile THEN "file" ELSE "directory",
                         metadata |-> <<>>,
                         hasChildren |-> ~isFile, elems |-> <<>>, props |-> <<>>]
       IN  IF found = {}
             THEN [node EXCEPT !.elems = Append(@, addPathParts(childNode, parts, i + 1))]
             ELSE [node EXCEPT !.elems[CHOOSE k \in found : \A m \in found : k <= m] =
                                 addPathParts(@, parts, i + 1)]

RECURSIVE addFilePaths(_, _, _)
addFilePaths(node, filePaths, root) ==
  IF filePaths = <<>> THEN node
  ELSE addFilePaths(addPathParts(node, relative(root, Head(filePaths)), 1),
                    Tail(filePaths), root)

\* sortChildren: node.children.sort(...); node.children.forEach(sortChildren)
RECURSIVE sortChildren(_)
sortChildren(node) ==
  IF ~node.hasChildren THEN node
  ELSE [node EXCEPT !.elems = LET sorted == treeToArray(node.elems)
                              IN  [k \in 1..Len(sorted) |-> sortChildren(sorted[k])]]

\* the standalone buildFileTree(filePaths, root)
buildFileTree(filePaths, root) ==
  sortChildren(addFilePaths([name |-> Last(root), path |-> <<>>, type |-> "directory",
                             metadata |-> <<>>, hasChildren |-> TRUE, elems |-> <<>>,
                             props |-> <<>>],
                            filePaths, root))

-----------------------------------------------------------------------------
(* Specification of the tree builder and the tree formatter                *)

MaxTreeFiles == 3

TreePaths ==
  { <<"README.md">>, <<"package.json">>, <<"src", "index.ts">>, <<"src", "app.ts">>,
    <<"src", "lib", "util.ts">>, <<"docs", "guide.md">> }

TreeFile(rel, inc) ==
  [path |-> Root \o rel, relativePath |-> rel, size |-> 1, extension |-> extname(Last(rel)),
   priority |-> NoPriority, isIncluded |-> inc, exclusionReason |-> "",
   hasContent |-> FALSE, content |-> <<>>, hasScore |-> FALSE, relevanceScore |-> 0]

\* the lists of at most MaxTreeFiles different files
TreeInputs ==
  UNION { { f \in [1..n -> TreePaths \X BOOLEAN] :
              \A i, j \in 1..n : i # j => f[i][1] # f[j][1] } : n \in 0..MaxTreeFiles }

\* the indentation formatAiOptimized starts the tree with
TreeIndent == 3

InitTree ==
  /\ mode = "tree"
  /\ pc = "build"
  /\ config = NoConfig
  /\ disk = NoDisk
  /\ \E f \in TreeInputs : treeFiles = [i \in 1..Len(f) |-> TreeFile(f[i][1], f[i][2])]
  /\ projectStructure = <<>>
  /\ treeText = <<>>
  /\ DecideIdle /\ EscIdle /\ PackIdle /\ PipeIdle /\ CallIdle

\* buildContextMap's call of buildDirectoryTree, then formatAiOptimized's
\* call of formatDirectoryTree on the result; callValue receives what the
\* standalone buildFileTree makes of the paths of the same included files
BuildTree ==
  /\ mode = "tree" /\ pc = "build"
  /\ projectStructure' = buildDirectoryTree(treeFiles, Root)
  /\ treeText' = formatDirectoryTree(projectStructure', TreeIndent)
  /\ callValue' = buildFileTree([i \in 1..Len(SelectSeq(treeFiles, LAMBDA f : f.isIncluded)) |->
                                  SelectSeq(treeFiles, LAMBDA f : f.isIncluded)[i].path],
                               Root)
  /\ pc' = "built"
  /\ UNCHANGED <<mode, config, disk, treeFiles, decideVars, escVars, packVars, pipeVars,
                 parseVars, rerunVars, callArgs>>

NextTree == BuildTree

SpecTree == InitTree /\ [][NextTree]_vars

HasLine(lines, indent, name) ==
  \E i \in 1..Len(lines) : lines[i].indent = indent /\ lines[i].name = name

\* C5: every included file, nested or not, is a file node reachable from the
\* root of the built tree by following its path parts through the children
\* lists, and the formatted tree has a line for it and for each of its
\* ancestor directories.
IncludedFilesReachableAndListed ==
  pc = "built" =>
    \A i \in 1..Len(treeFiles) :
      treeFiles[i].isIncluded =>
        /\ Follow(projectStructure, treeFiles[i].relativePath).type = "file"
        /\ \A d \in 1..Len(treeFiles[i].relativePath) :
             HasLine(treeText, TreeIndent + d - 1, treeFiles[i].relativePath[d])

-----------------------------------------------------------------------------
(* OutputFormatter.escapeXml and the per-file rendering of the structured  *)
(* format                                                                  *)

\* str.replace(/c/g, r): every occurrence of the character c becomes r
RECURSIVE replaceAll(_, _, _)
replaceAll(str, c, r) ==
  IF str = <<>> THEN <<>>
  ELSE (IF Head(str) = c THEN r ELSE <<Head(str)>>) \o replaceAll(Tail(str), c, r)

AMP == <<"&", "a", "m", "p", ";">>
LT == <<"&", "l", "t", ";">>
GT == <<"&", "g", "t", ";">>
QUOT == <<"&", "q", "u", "o", "t", ";">>
APOS == <<"&", "a", "p", "o", "s", ";">>

escapeXml(str) ==
  replaceAll(replaceAll(replaceAll(replaceAll(replaceAll(str,
    "&", AMP), "<", LT), ">", GT), "\"", QUOT), "'", APOS)

\* str.split('\n')
RECURSIVE split(_, _)
split(str, sep) ==
  IF \E i \in 1..Len(str) : str[i] = sep
    THEN LET i == CHOOSE j \in 1..Len(str) : str[j] = sep /\ \A k \in 1..(j - 1) : str[k] # sep
         IN  <<SubSeq(str, 1, i - 1)>> \o split(SubSeq(str, i + 1, Len(str)), sep)
    ELSE <<str>>

IsSpace(c) == c \in {" ", "\n"}

\* str.trim()
RECURSIVE trimStart(_)
trimStart(str) == IF str # <<>> /\ IsSpace(Head(str)) THEN trimStart(Tail(str)) ELSE str

RECURSIVE trimEnd(_)
trimEnd(str) ==
  IF str # <<>> /\ IsSpace(Last(str)) THEN trimEnd(SubSeq(str, 1, Len(str) - 1)) ELSE str

trim(str) == trimEnd(trimStart(str))

\* formatAiOptimized, one file: the text put into path="..." and the text of
\* each content line (after the six blanks of indentation)
aiFileElement(relativePath, content) ==
  [path |-> escapeXml(relativePath),
   lines |-> LET ls == split(content, "\n") IN [i \in 1..Len(ls) |-> escapeXml(ls[i])]]

\* generateCombinedCode with outputFormat 'ai-optimized', one file: the text
\* put into path="..." and the content element that is pushed
combinedFileElement(relativePath, fileContent) ==
  [path |-> relativePath, lines |-> split(trim(fileContent), "\n")]

-----------------------------------------------------------------------------
(* Specification of the per-file rendering                                 *)

MaxLen == 3

EscChars == {"&", "<", ">", "\"", "'", "a", "\n", " "}

EscPaths == { <<"a">>, <<"a", "&", "a">>, <<"<", "'">> }

EscContents == UNION { [1..n -> EscChars] : n \in 0..MaxLen }

InitEscape ==
  /\ mode = "escape"
  /\ pc = "render"
  /\ config = NoConfig
  /\ disk = NoDisk
  /\ \E p \in EscPaths, c \in EscContents : escIn = [path |-> p, content |-> c]
  /\ escOut = NoOutput
  /\ DecideIdle /\ TreeIdle /\ PackIdle /\ PipeIdle /\ CallIdle

\* one file is rendered by formatAiOptimized and by generateCombinedCode
RenderFile ==
  /\ mode = "escape" /\ pc = "render"
  /\ escOut' = [ai |-> aiFileElement(escIn.path, escIn.content),
                combined |-> combinedFileElement(escIn.path, escIn.content)]
  /\ pc' = "rendered"
  /\ UNCHANGED <<mode, config, disk, escIn, decideVars, treeVars, packVars, pipeVars, callVars>>

NextEscape == RenderFile

SpecEscape == InitEscape /\ [][NextEscape]_vars

\* decoding of the five named escapes
RECURSIVE unescapeXml(_)
unescapeXml(str) ==
  IF str = <<>> THEN <<>>
  ELSE IF IsPrefix(AMP, str) THEN <<"&">> \o unescapeXml(SubSeq(str, Len(AMP) + 1, Len(str)))
  ELSE IF IsPrefix(LT, str) THEN <<"<">> \o unescapeXml(SubSeq(str, Len(LT) + 1, Len(str)))
  ELSE IF IsPrefix(GT, str) THEN <<">">> \o unescapeXml(SubSeq(str, Len(GT) + 1, Len(str)))
  ELSE IF IsPrefix(QUOT, str) THEN <<"\"">> \o unescapeXml(SubSeq(str, Len(QUOT) + 1, Len(str)))
  ELSE IF IsPrefix(APOS, str) THEN <<"'">> \o unescapeXml(SubSeq(str, Len(APOS) + 1, Len(str)))
  ELSE <<Head(str)>> \o unescapeXml(Tail(str))

\* no reserved character is left raw: no < > " ', and every & starts an escape
NoRawReserved(str) ==
  \A i \in 1..Len(str) :
    /\ str[i] \notin {"<", ">", "\"", "'"}
    /\ str[i] = "&" =>
         \E e \in {AMP, LT, GT, QUOT, APOS} : IsPrefix(e, SubSeq(str, i, Len(str)))

\* an emitted file element carries the path and the content lines escaped
EscapedElement(el, relativePath, content) ==
  /\ NoRawReserved(el.path)
  /\ unescapeXml(el.path) = relativePath
  /\ \A i \in 1..Len(el.lines) : NoRawReserved(el.lines[i])
  /\ [i \in 1..Len(el.lines) |-> unescapeXml(el.lines[i])] = split(content, "\n")

\* C10: in the structured output of formatAiOptimized and of
\* generateCombinedCode every file path and every content line is emitted
\* with & < > " ' replaced by their named escapes (ampersand first), decoding
\* gives the original back, and no raw < of a path or content is emitted.
StructuredOutputEscaped ==
  pc = "rendered" =>
    /\ EscapedElement(escOut.ai, escIn.path, escIn.content)
    /\ EscapedElement(escOut.combined, escIn.path, trim(escIn.content))

\* the part of C10 about formatAiOptimized alone
AiOutputEscaped ==
  pc = "rendered" => EscapedElement(escOut.ai, escIn.path, escIn.content)

-----------------------------------------------------------------------------
(* The file system                                                         *)

SrcDir == Root \o <<"src">>
ModulesDir == Root \o <<"node_modules">>

DiskDirs == {Root, SrcDir, ModulesDir}

\* fs.readdir(dir): the entry names, in the order the system lists them
readdir(dir) ==
  CASE dir = Root -> <<"logo.png", "node_modules", "package.json", "src">>
    [] dir = SrcDir -> <<"index.ts", "util.ts">>
    [] dir = ModulesDir -> <<"index.ts">>
    [] OTHER -> <<>>

isDirectory(p) == p \in DiskDirs

DiskFiles ==
  { Root \o <<"logo.png">>, Root \o <<"package.json">>, SrcDir \o <<"index.ts">>,
    SrcDir \o <<"util.ts">>, ModulesDir \o <<"index.ts">> }

\* the text a file holds when it is `size` characters long
FileText(p, size) ==
  LET full == CASE Last(p) = "package.json" -> <<"{", "}">>
                [] Last(p) = "index.ts" -> <<"a", "<">>
                [] OTHER -> <<"a", " ">>
  IN  SubSeq(full, 1, IF size > 2 THEN 2 ELSE size)

-----------------------------------------------------------------------------
(* extension.ts: handlePackCode -> packCodeFiles                           *)

\* a.startsWith(b) on names, for the names of the universe
NameStartsWith(a, b) == a = b \/ (a = "src2" /\ b = "src")

\* path.startsWith(existingPath), both as strings
startsWith(path, existingPath) ==
  LET n == Len(existingPath)
  IN  /\ 0 < n /\ n <= Len(path)
      /\ SubSeq(path, 1, n - 1) = SubSeq(existingPath, 1, n - 1)
      /\ NameStartsWith(path[n], existingPath[n])

\* flattenArray: an argument is one Uri or an array of Uris
RECURSIVE flattenArray(_)
flattenArray(arr) == IF arr = <<>> THEN <<>> ELSE Head(arr).items \o flattenArray(Tail(arr))

\* uriMap is the sequence of its keys in insertion order
isOverriddenByParent(path, uriMap) ==
  \E i \in 1..Len(uriMap) : startsWith(path, uriMap[i]) /\ path # uriMap[i]

RECURSIVE addUris(_, _)
addUris(uriMap, flatArgs) ==
  IF flatArgs = <<>> THEN uriMap
  ELSE LET path == Head(flatArgs)
           m == IF ~isOverriddenByParent(path, uriMap) /\ path \notin Range(uriMap)
                  THEN Append(uriMap, path) ELSE uriMap
       IN  addUris(m, Tail(flatArgs))

extractUniqueUris(args) == addUris(<<>>, flattenArray(args))

\* traverseFolder (readdirSync / statSync, no filter): entries from index i on
RECURSIVE traverseFolder(_)
RECURSIVE traverseEntries(_, _)
traverseEntries(folderPath, i) ==
  LET names == readdir(folderPath)
      filePath == join(folderPath, names[i])
  IN  IF i > Len(names) THEN <<>>
      ELSE (IF isDirectory(filePath) THEN traverseFolder(filePath) ELSE <<filePath>>)
           \o traverseEntries(folderPath, i + 1)
traverseFolder(folderPath) == traverseEntries(folderPath, 1)

\* uris.forEach(...) of handlePackCode: the file paths that are collected
RECURSIVE collectFilePaths(_)
collectFilePaths(uris) ==
  IF uris = <<>> THEN <<>>
  ELSE (IF isDirectory(Head(uris)) THEN traverseFolder(Head(uris)) ELSE <<Head(uris)>>)
       \o collectFilePaths(Tail(uris))

\* packCodeFiles: one snippet "// relativePath\n" + content.trim() per file
\* that can be read
RECURSIVE packSnippets(_, _, _)
packSnippets(filePaths, unreadable, d) ==
  IF filePaths = <<>> THEN <<>>
  ELSE LET filePath == Head(filePaths)
       IN  (IF filePath \in unreadable THEN <<>>
            ELSE << [filePath |-> filePath,
                     relativePath |-> relative(Root, filePath),
                     content |-> trim(FileText(filePath, d[filePath]))] >>)
           \o packSnippets(Tail(filePaths), unreadable, d)

Uri(p) == [array |-> FALSE, items |-> <<p>>]
UriArray(ps) == [array |-> TRUE, items |-> ps]

UriChoices ==
  { Root, SrcDir, ModulesDir, Root \o <<"logo.png">>, Root \o <<"package.json">>,
    SrcDir \o <<"index.ts">> }

MaxArgs == 2

\* up to MaxArgs Uris, or the explorer's (clicked, [selected...]) pair
PackArgChoices ==
  UNION { [1..n -> {Uri(p) : p \in UriChoices}] : n \in 0..MaxArgs }
  \cup { <<Uri(p), UriArray(<<p, q>>)>> : p \in {SrcDir}, q \in UriChoices }

DiskSizes == {1, 2}

PackDisks ==
  { [p \in DiskFiles |-> IF p = Root \o <<"package.json">> THEN a
                         ELSE IF p = SrcDir \o <<"index.ts">> THEN b ELSE 1] :
      a \in DiskSizes, b \in DiskSizes }

InitPack ==
  /\ mode = "pack"
  /\ pc = "command"
  /\ \E mfs \in {Str1, Str100kb} : config = [NoConfig EXCEPT !.maxFileSize = mfs]
  /\ disk \in PackDisks
  /\ packArgs \in PackArgChoices
  /\ combinedCode = <<>>
  /\ clipboard = <<>>
  /\ message = ""
  /\ DecideIdle /\ TreeIdle /\ EscIdle /\ PipeIdle /\ CallIdle

\* handlePackCode up to the await of clipboard.writeText in packCodeFiles
HandlePackCode ==
  /\ mode = "pack" /\ pc = "command"
  /\ LET uris == extractUniqueUris(packArgs)
         filePaths == collectFilePaths(uris)
     IN  IF Len(uris) = 0
           THEN /\ message' = "Please select one or more files or folders"
                /\ pc' = "done"
                /\ UNCHANGED combinedCode
         ELSE IF Len(filePaths) = 0
           THEN /\ message' = "No files found in the selected folders."
                /\ pc' = "done"
                /\ UNCHANGED combinedCode
         ELSE \E unreadable \in SUBSET {Root \o <<"package.json">>} :
                /\ combinedCode' = packSnippets(filePaths, unreadable, disk)
                /\ pc' = "writing"
                /\ UNCHANGED message
  /\ UNCHANGED <<mode, config, disk, packArgs, clipboard, decideVars, treeVars, escVars, pipeVars, callVars>>

\* clipboard.writeText resolves, or rejects
ClipboardWritten ==
  /\ mode = "pack" /\ pc = "writing"
  /\ \E ok \in BOOLEAN :
       IF ok THEN clipboard' = combinedCode /\ message' = "packed and copied to clipboard"
             ELSE clipboard' = clipboard
                  /\ message' = "Failed to copy the packed code to the clipboard"
  /\ pc' = "done"
  /\ UNCHANGED <<mode, config, disk, packArgs, combinedCode, decideVars, treeVars, escVars, pipeVars, callVars>>

NextPack == HandlePackCode \/ ClipboardWritten

SpecPack == InitPack /\ [][NextPack]_vars

\* C4: every file whose content packCode copies to the clipboard has no
\* binary extension, lies under no excluded directory such as node_modules,
\* and is not larger than maxFileSize.
ClipboardOnlyAcceptedFiles ==
  \A i \in 1..Len(clipboard) :
    LET f == clipboard[i]
    IN  /\ extname(Last(f.filePath)) \notin BINARY_EXTENSIONS
        /\ ~MatchesAny(f.relativePath, DEFAULT_EXCLUSIONS, FALSE)
        /\ ~SizeGt(disk[f.filePath], parseSize(config.maxFileSize))

-----------------------------------------------------------------------------
(* CodebaseProcessor: context map, budget and result                       *)

\* /^(index|main|app|server|extension|background|content|popup|cli)\.[jt]sx?$/
\* tested on the whole relative path: it matches a path of one part only
IsEntryPointPath(relativePath) ==
  Len(relativePath) = 1 /\ relativePath[1] \in {"index.ts", "app.ts", "main.ts"}

relativePaths(fileList) == [i \in 1..Len(fileList) |-> fileList[i].relativePath]

detectEntryPoints(fileList) ==
  relativePaths(SelectSeq(fileList, LAMBDA f : f.isIncluded /\ IsEntryPointPath(f.relativePath)))

\* relativePath.includes('config') || === 'package.json' || === 'tsconfig.json'
\* || endsWith('.json')
IsConfigPath(relativePath) ==
  \/ \E i \in 1..Len(relativePath) : relativePath[i] \in {"tsconfig.json", "vite.config.ts"}
  \/ relativePath = <<"package.json">>
  \/ extname(Last(relativePath)) = ".json"

Take(seq, n) == SubSeq(seq, 1, IF Len(seq) < n THEN Len(seq) ELSE n)

buildContextMap(fileList, workspaceRoot) ==
  [projectStructure |-> buildDirectoryTree(fileList, workspaceRoot),
   configFiles |-> SelectSeq(fileList, LAMBDA f : f.isIncluded /\ IsConfigPath(f.relativePath)),
   coreFiles |-> Take(sortByRelevance(SelectSeq(fileList,
                   LAMBDA f : f.isIncluded /\ f.hasScore /\ f.relevanceScore > 70)), 10),
   entryPoints |-> detectEntryPoints(fileList)]

sizes(fileList) == [i \in 1..Len(fileList) |-> fileList[i].size]

\* the filter ending at the first file that does not fit
RECURSIVE trimToBudget_stopAtFirstSkip(_, _, _)
trimToBudget_stopAtFirstSkip(fileList, currentSize, maxTotalBytes) ==
  IF fileList = <<>> THEN <<>>
  ELSE IF SizeLe(currentSize + Head(fileList).size, maxTotalBytes)
    THEN <<Head(fileList)>>
         \o trimToBudget_stopAtFirstSkip(Tail(fileList), currentSize + Head(fileList).size,
                                         maxTotalBytes)
    ELSE <<>>

\* the filter with its test inverted: a file is kept when it does not fit
RECURSIVE trimToBudget_admitOverBudget(_, _, _)
trimToBudget_admitOverBudget(fileList, currentSize, maxTotalBytes) ==
  IF fileList = <<>> THEN <<>>
  ELSE IF SizeGt(currentSize + Head(fileList).size, maxTotalBytes)
    THEN <<Head(fileList)>>
         \o trimToBudget_admitOverBudget(Tail(fileList), currentSize + Head(fileList).size,
                                         maxTotalBytes)
    ELSE trimToBudget_admitOverBudget(Tail(fileList), currentSize, maxTotalBytes)

\* includedFiles.filter(file => currentSize + file.size <= maxTotalBytes ? ...)
RECURSIVE trimToBudget(_, _, _)
trimToBudget(fileList, currentSize, maxTotalBytes) ==
  IF fileList = <<>> THEN <<>>
  ELSE IF SizeLe(currentSize + Head(fileList).size, maxTotalBytes)
    THEN <<Head(fileList)>>
         \o trimToBudget(Tail(fileList), currentSize + Head(fileList).size, maxTotalBytes)
    ELSE trimToBudget(Tail(fileList), currentSize, maxTotalBytes)

\* OutputFormatter.formatAiOptimized: the directory tree lines, the file
\* elements of <source_files> and those of <configuration>
formatAiOptimized(res) ==
  LET sortedFiles == sortByRelevance(SelectSeq(res.files,
                                               LAMBDA f : f.isIncluded /\ ContentTruthy(f)))
      configFiles == SelectSeq(res.contextMap.configFiles, ContentTruthy)
  IN  [structure |-> formatDirectoryTree(res.contextMap.projectStructure, 3),
       sourceFiles |-> [i \in 1..Len(sortedFiles) |->
                          aiFileElement(sortedFiles[i].relativePath, sortedFiles[i].content)],
       configuration |-> [i \in 1..Len(configFiles) |->
                            aiFileElement(configFiles[i].relativePath, configFiles[i].content)]]

\* the result literal both entry points build, and its formatting
makeResult(contextMap, entryPoints, fileList, totalSize) ==
  LET res == [files |-> fileList, totalSize |-> totalSize, contextMap |-> contextMap,
              overview |-> [entryPoints |-> entryPoints],
              formattedOutput |-> NoResult.formattedOutput]
  IN  [res EXCEPT !.formattedOutput = formatAiOptimized(res)]

\* CodebaseProcessor.processClassifiedFiles: threw, or the result
processClassifiedFiles(classified, workspaceRoot, cfg) ==
  LET contextMap == buildContextMap(classified, workspaceRoot)
      entryPoints == detectEntryPoints(classified)
      includedFiles == SelectSeq(classified, LAMBDA f : f.isIncluded /\ ContentTruthy(f))
      totalSize == SumSeq(sizes(includedFiles))
      maxTotalBytes == parseSize(cfg.maxTotalSize)
      trimmedFiles == trimToBudget(sortByRelevance(includedFiles), 0, maxTotalBytes)
  IN  IF maxTotalBytes.err THEN [threw |-> TRUE, result |-> NoResult, trimmed |-> FALSE]
      ELSE [threw |-> FALSE,
            result |-> makeResult(contextMap, entryPoints,
                          IF SizeGt(totalSize, maxTotalBytes)
                            THEN sortByRelevance(includedFiles) ELSE includedFiles,
                          IF SizeGt(totalSize, maxTotalBytes)
                            THEN SumSeq(sizes(trimmedFiles)) ELSE totalSize),
            trimmed |-> SizeGt(totalSize, maxTotalBytes)]

\* the part of CodebaseProcessor.processFiles after the classification
processFilesTail(classified, workspaceRoot, cfg) ==
  LET contextMap == buildContextMap(classified, workspaceRoot)
      entryPoints == detectEntryPoints(classified)
      includedFiles == SelectSeq(classified, LAMBDA f : f.isIncluded /\ ContentTruthy(f))
      totalSize == SumSeq(sizes(includedFiles))
      maxTotalBytes == parseSize(cfg.maxTotalSize)
      trimmedFiles == trimToBudget(sortByRelevance(includedFiles), 0, maxTotalBytes)
  IN  IF maxTotalBytes.err THEN [threw |-> TRUE, result |-> NoResult, trimmed |-> FALSE]
      ELSE IF SizeGt(totalSize, maxTotalBytes)
        THEN [threw |-> FALSE,
              result |-> makeResult(contextMap, entryPoints, trimmedFiles,
                                    SumSeq(sizes(trimmedFiles))),
              trimmed |-> TRUE]
        ELSE [threw |-> FALSE,
              result |-> makeResult(contextMap, entryPoints, includedFiles, totalSize),
              trimmed |-> FALSE]

-----------------------------------------------------------------------------
(* CodebaseProcessor.processDirectory / processFiles as a state machine     *)
(*                                                                         *)
(* pc: "idle" -> "scanning" -> "classifying" -> "done" | "failed".          *)
(* worklist is the stack of entries analyzeDirectory has still to visit,   *)
(* files the array it has filled so far; todo are the filePaths of         *)
(* processFiles not yet looked up, allFiles the targets found.             *)

MaxDiskSize == 2

ProcessDisks ==
  { [p \in DiskFiles |-> IF p = Root \o <<"package.json">> THEN a
                         ELSE IF p = SrcDir \o <<"index.ts">> THEN b ELSE 1] :
      a \in 1..MaxDiskSize, b \in 1..MaxDiskSize }

Str2 == <<"2">>
Str1kb == <<"1", "k", "b">>

ProcessConfigs ==
  { [NoConfig EXCEPT !.maxFileSize = mfs, !.maxTotalSize = mts, !.include = inc] :
      mfs \in {Str100kb, Str1, StrBad}, mts \in {Str2, Str1kb, StrBad},
      inc \in {<<>>, << <<"src", GLOBSTAR>> >>} }

Requests ==
  { [op |-> "processDirectory", dirPath |-> d, filePaths |-> <<>>] : d \in {Root, SrcDir} }
  \cup { [op |-> "processFiles", dirPath |-> <<>>, filePaths |-> fp] :
           fp \in { <<SrcDir \o <<"index.ts">> >>,
                    <<SrcDir \o <<"index.ts">>, SrcDir \o <<"util.ts">> >>,
                    <<Root \o <<"package.json">>, SrcDir \o <<"util.ts">> >> } }

TextScanning == "$(sync~spin) PromptPacker: Scanning directory..."
TextAnalyzing == "$(sync~spin) PromptPacker: Analyzing files..."
TextClassifying == "$(sync~spin) PromptPacker: Classifying files..."
TextPacked == "$(check) PromptPacker: files packed"
TextFailed == "$(error) PromptPacker: Processing failed"

DirEntry(p) == [path |-> p, dir |-> TRUE]
FileEntry(p) == [path |-> p, dir |-> FALSE]

Init ==
  /\ mode = "process"
  /\ pc = "idle"
  /\ config \in ProcessConfigs
  /\ disk \in ProcessDisks
  /\ request \in Requests
  /\ filter = NewFilter(config, <<>>, <<>>)
  /\ todo = <<>> /\ worklist = <<>> /\ files = <<>> /\ allFiles = <<>>
  /\ pending = {} /\ classifiedFiles = <<>>
  /\ result = NoResult
  /\ statusBarItem = HiddenBar
  /\ timers = 0
  /\ dirsRead = {}
  /\ error = NoError
  /\ DecideIdle /\ TreeIdle /\ EscIdle /\ PackIdle /\ CallIdle

otherVars == <<mode, config, disk, decideVars, treeVars, escVars, packVars, callVars>>

\* processDirectory up to the await of analyzeDirectory(dirPath)
StartProcessDirectory ==
  /\ mode = "process" /\ pc = "idle" /\ request.op = "processDirectory"
  /\ statusBarItem' = [text |-> TextScanning, visible |-> TRUE]
  /\ filter' = NewFilter(config, Root, <<>>)
  /\ worklist' = <<DirEntry(request.dirPath)>>
  /\ files' = <<>>
  /\ pc' = "scanning"
  /\ UNCHANGED <<otherVars, request, todo, allFiles, pending, classifiedFiles, result,
                 timers, dirsRead, error>>

\* processFiles up to the await of the first analyzeDirectory(dirname(filePath))
StartProcessFiles ==
  /\ mode = "process" /\ pc = "idle" /\ request.op = "processFiles"
  /\ statusBarItem' = [text |-> TextAnalyzing, visible |-> TRUE]
  /\ filter' = NewFilter(config, Root, <<>>)
  /\ todo' = request.filePaths
  /\ allFiles' = <<>>
  /\ worklist' = IF request.filePaths = <<>> THEN <<>>
                 ELSE <<DirEntry(dirname(Head(request.filePaths)))>>
  /\ files' = <<>>
  /\ pc' = "scanning"
  /\ UNCHANGED <<otherVars, request, pending, classifiedFiles, result, timers, dirsRead, error>>

\* the entries of a directory analyzeDirectory goes on to visit: every file,
\* and every directory shouldIncludeDirectory lets in
entriesToVisit(flt, dirPath) ==
  LET names == readdir(dirPath)
      all == [i \in 1..Len(names) |->
                IF isDirectory(join(dirPath, names[i])) THEN DirEntry(join(dirPath, names[i]))
                ELSE FileEntry(join(dirPath, names[i]))]
  IN  SelectSeq(all, LAMBDA e : ~e.dir \/ shouldIncludeDirectory(flt, e.path))

\* an exception reaches the catch block of processDirectory / processFiles
Caught(kind, path) ==
  /\ error' = [kind |-> kind, path |-> path]
  /\ statusBarItem' = [statusBarItem EXCEPT !.text = TextFailed]
  /\ timers' = timers + 1
  /\ pc' = "failed"

\* analyzeDirectory: fs.promises.readdir resolves
ReadDirectory ==
  /\ mode = "process" /\ pc = "scanning"
  /\ worklist # <<>> /\ Head(worklist).dir
  /\ dirsRead' = dirsRead \cup {Head(worklist).path}
  /\ worklist' = entriesToVisit(filter, Head(worklist).path) \o Tail(worklist)
  /\ UNCHANGED <<otherVars, pc, request, filter, todo, files, allFiles, pending,
                 classifiedFiles, result, statusBarItem, timers, error>>

\* analyzeDirectory: fs.promises.readdir rejects; nothing in the walk catches it
ReadDirectoryFails ==
  /\ mode = "process" /\ pc = "scanning"
  /\ worklist # <<>> /\ Head(worklist).dir
  /\ Caught("readdir failed", Head(worklist).path)
  /\ UNCHANGED <<otherVars, request, filter, todo, worklist, files, allFiles, pending,
                 classifiedFiles, result, dirsRead>>

\* analyzeDirectory: analyzeFile(fullPath) resolves and is pushed
AnalyzeFile ==
  /\ mode = "process" /\ pc = "scanning"
  /\ worklist # <<>> /\ ~Head(worklist).dir
  /\ LET metadata == analyzeFile(filter, Head(worklist).path, disk[Head(worklist).path])
     IN  /\ ~shouldIncludeFileClass(filter, Head(worklist).path,
                                    disk[Head(worklist).path]).threw
         /\ files' = Append(files, metadata)
  /\ worklist' = Tail(worklist)
  /\ UNCHANGED <<otherVars, pc, request, filter, todo, allFiles, pending, classifiedFiles,
                 result, statusBarItem, timers, dirsRead, error>>

\* analyzeFile: fs.promises.stat rejects
StatFails ==
  /\ mode = "process" /\ pc = "scanning"
  /\ worklist # <<>> /\ ~Head(worklist).dir
  /\ Caught("stat failed", Head(worklist).path)
  /\ UNCHANGED <<otherVars, request, filter, todo, worklist, files, allFiles, pending,
                 classifiedFiles, result, dirsRead>>

\* analyzeFile: shouldIncludeFile throws from parseSize(maxFileSize)
FileSizeLimitThrows ==
  /\ mode = "process" /\ pc = "scanning"
  /\ worklist # <<>> /\ ~Head(worklist).dir
  /\ shouldIncludeFileClass(filter, Head(worklist).path, disk[Head(worklist).path]).threw
  /\ Caught("Invalid size format", Head(worklist).path)
  /\ UNCHANGED <<otherVars, request, filter, todo, worklist, files, allFiles, pending,
                 classifiedFiles, result, dirsRead>>

\* files.find(f => f.path === filePath)
find(fileList, filePath) == SelectSeq(fileList, LAMBDA f : f.path = filePath)

\* processFiles: one analyzeDirectory has resolved; the target is looked up
\* and the directory of the next filePath is analysed
FoundTarget ==
  /\ mode = "process" /\ pc = "scanning" /\ request.op = "processFiles"
  /\ worklist = <<>> /\ todo # <<>>
  /\ allFiles' = IF find(files, Head(todo)) = <<>> THEN allFiles
                 ELSE Append(allFiles, Head(find(files, Head(todo))))
  /\ todo' = Tail(todo)
  /\ worklist' = IF Tail(todo) = <<>> THEN <<>> ELSE <<DirEntry(dirname(Head(Tail(todo))))>>
  /\ files' = <<>>
  /\ UNCHANGED <<otherVars, pc, request, filter, pending, classifiedFiles, result,
                 statusBarItem, timers, dirsRead, error>>

\* the candidates are handed to classifier.classifyFile, under Promise.all
StartClassify ==
  /\ mode = "process" /\ pc = "scanning"
  /\ worklist = <<>> /\ todo = <<>>
  /\ LET candidates == IF request.op = "processDirectory" THEN files ELSE allFiles
     IN  /\ classifiedFiles' = candidates
         /\ pending' = {i \in 1..Len(candidates) : candidates[i].isIncluded}
  /\ statusBarItem' = [statusBarItem EXCEPT !.text = TextClassifying]
  /\ pc' = "classifying"
  /\ UNCHANGED <<otherVars, request, walkVars, result, timers, error>>

ReadOutcomes(f) ==
  {[ok |-> FALSE, text |-> <<>>, mult |-> 100]}
  \cup {[ok |-> TRUE, text |-> FileText(f.path, f.size), mult |-> m] : m \in {80, 100}}

\* one classifyFile promise resolves
ClassifyFile ==
  /\ mode = "process" /\ pc = "classifying"
  /\ \E i \in pending : \E read \in ReadOutcomes(classifiedFiles[i]) :
       /\ classifiedFiles' = [classifiedFiles EXCEPT ![i] = classifyFile(@, read)]
       /\ pending' = pending \ {i}
  /\ UNCHANGED <<otherVars, pc, request, walkVars, result, statusBarItem, timers, error>>

\* processDirectory going on without awaiting Promise.all of the classifyFile
\* tasks: the later stages start while tasks are still pending
ReturnProcessDirectory_noBarrier ==
  /\ mode = "process" /\ pc = "classifying" /\ request.op = "processDirectory"
  /\ \E r \in {processClassifiedFiles(classifiedFiles, Root, config)} :
       IF r.threw
         THEN /\ error' = [kind |-> "Invalid size format", path |-> <<>>]
              /\ pc' = "failed"
              /\ UNCHANGED <<result, statusBarItem, timers>>
         ELSE /\ result' = r.result
              /\ statusBarItem' = [statusBarItem EXCEPT !.text = TextPacked]
              /\ timers' = timers + 1
              /\ pc' = "done"
              /\ UNCHANGED error
  /\ UNCHANGED <<otherVars, request, walkVars, pending, classifiedFiles>>

\* processDirectory returns the promise of processClassifiedFiles: a
\* rejection of that promise does not pass through the catch block
ReturnProcessDirectory ==
  /\ mode = "process" /\ pc = "classifying" /\ request.op = "processDirectory"
  /\ pending = {}
  /\ LET r == processClassifiedFiles(classifiedFiles, Root, config)
     IN  IF r.threw
           THEN /\ error' = [kind |-> "Invalid size format", path |-> <<>>]
                /\ pc' = "failed"
                /\ UNCHANGED <<result, statusBarItem, timers>>
           ELSE /\ result' = r.result
                /\ statusBarItem' = [statusBarItem EXCEPT !.text = TextPacked]
                /\ timers' = timers + 1
                /\ pc' = "done"
                /\ UNCHANGED error
  /\ UNCHANGED <<otherVars, request, walkVars, pending, classifiedFiles>>

\* processFiles after the classification: the trimmed branch returns
\* without touching the status bar
ReturnProcessFiles ==
  /\ mode = "process" /\ pc = "classifying" /\ request.op = "processFiles"
  /\ pending = {}
  /\ LET r == processFilesTail(classifiedFiles, Root, config)
     IN  IF r.threw
           THEN /\ Caught("Invalid size format", <<>>)
                /\ UNCHANGED result
           ELSE /\ result' = r.result
                /\ pc' = "done"
                /\ IF r.trimmed THEN UNCHANGED <<statusBarItem, timers>>
                   ELSE /\ statusBarItem' = [statusBarItem EXCEPT !.text = TextPacked]
                        /\ timers' = timers + 1
                /\ UNCHANGED error
  /\ UNCHANGED <<otherVars, request, walkVars, pending, classifiedFiles>>

\* setTimeout(() => this.statusBarItem.hide(), 3000) fires
HideStatusBar ==
  /\ mode = "process" /\ timers > 0
  /\ statusBarItem' = [statusBarItem EXCEPT !.visible = FALSE]
  /\ timers' = timers - 1
  /\ UNCHANGED <<otherVars, pc, request, walkVars, pending, classifiedFiles, result, error>>

Next ==
  \/ StartProcessDirectory
  \/ StartProcessFiles
  \/ ReadDirectory
  \/ ReadDirectoryFails
  \/ AnalyzeFile
  \/ StatFails
  \/ FileSizeLimitThrows
  \/ FoundTarget
  \/ StartClassify
  \/ ClassifyFile
  \/ ReturnProcessDirectory
  \/ ReturnProcessFiles
  \/ HideStatusBar

Spec == Init /\ [][Next]_vars

Returned == mode = "process" /\ pc = "done"

\* C1: the files of a returned ProcessingResult (result.files) have summed
\* sizes that do not exceed the parsed maxTotalSize
ResultWithinBudget ==
  Returned => SizeLe(SumSeq(sizes(result.files)), parseSize(config.maxTotalSize))

InResultFiles(relativePath) ==
  \E i \in 1..Len(result.files) : result.files[i].relativePath = relativePath

\* C6: every file node of contextMap.projectStructure of a returned result
\* refers to a file of result.files
TreeOnlyFinalSelection ==
  Returned =>
    \A n \in AllFileNodes(result.contextMap.projectStructure) : InResultFiles(n.metadata)

\* the candidates that the filter let in and whose content could not be read
Unreadable == {i \in 1..Len(classifiedFiles) :
                 classifiedFiles[i].isIncluded /\ ~classifiedFiles[i].hasContent}

\* C7: an included candidate whose content could not be read is in
\* result.files when all the included candidates together fit the budget
UnreadableStillSelected ==
  (Returned /\ SizeLe(SumSeq(sizes(SelectSeq(classifiedFiles, LAMBDA f : f.isIncluded))),
                      parseSize(config.maxTotalSize)))
    => \A i \in Unreadable : InResultFiles(classifiedFiles[i].relativePath)

ConfigurationError == mode = "process" /\ pc = "failed" /\ error.kind = "Invalid size format"

\* C8: when the run fails on a malformed size string, no directory has been
\* read and no file has been classified
ConfigErrorBeforeTraversal ==
  ConfigurationError => dirsRead = {} /\ classifiedFiles = <<>>

\* C9: processDirectory never fails on an I/O error met below the directory
\* it was given: a subdirectory that cannot be read, a file that cannot be
\* stat'ed
TraversalErrorNeverAborts ==
  ~(mode = "process" /\ pc = "failed" /\ request.op = "processDirectory"
    /\ error.kind \in {"readdir failed", "stat failed"}
    /\ error.path # request.dirPath)

-----------------------------------------------------------------------------
(* Specification of the size parsers                                       *)

\* the texts a size string is put together from: number, blanks, unit
NumberTexts == { <<"1">>, <<"5">>, <<"1", "5">>, <<"1", ".", "5">>, <<"0">>,
                 <<"1", ".">>, <<".", "5">>, <<"-", "1">>, <<>> }
BlankTexts == { <<>>, <<" ">>, <<" ", " ">> }
UnitTexts == { <<>>, <<"b">>, <<"B">>, <<"k", "b">>, <<"K", "B">>, <<"K", "b">>,
               <<"m", "b">>, <<"M", "B">>, <<"g", "b">>, <<"G", "B">>,
               <<"k">>, <<"t", "b">>, <<"k", "b", "s">>, <<"b", "i", "g">> }

\* the size strings whose value stays below 2^31
SizeStrings ==
  { n \o sp \o u : n \in NumberTexts, sp \in BlankTexts, u \in UnitTexts }
  \ { n \o sp \o u : n \in NumberTexts \ {<<"1">>, <<"0">>}, sp \in BlankTexts,
                     u \in {<<"g", "b">>, <<"G", "B">>} }

InitParse ==
  /\ mode = "parse"
  /\ pc = "ask"
  /\ sizeInput \in SizeStrings
  /\ parsed = NoParsed
  /\ config = NoConfig
  /\ disk = NoDisk
  /\ DecideIdle /\ TreeIdle /\ EscIdle /\ PackIdle /\ PipeIdle /\ RerunIdle
  /\ ApplyIdle

\* the size string is given to the parser of the classes and to the standalone one
ParseSizes ==
  /\ mode = "parse" /\ pc = "ask"
  /\ parsed' = [class |-> parseSize(sizeInput), alone |-> parseSizeAlone(sizeInput)]
  /\ pc' = "parsed"
  /\ UNCHANGED <<mode, config, disk, sizeInput, decideVars, treeVars, escVars, packVars,
                 pipeVars, rerunVars, applyVars>>

NextParse == ParseSizes

SpecParse == InitParse /\ [][NextParse]_vars

\* <number>: digits, optionally followed by a point and digits, as num / den
NumberValue(n) ==
  CASE n = <<"1">> -> [ok |-> TRUE, num |-> 1, den |-> 1]
    [] n = <<"5">> -> [ok |-> TRUE, num |-> 5, den |-> 1]
    [] n = <<"0">> -> [ok |-> TRUE, num |-> 0, den |-> 1]
    [] n = <<"1", "5">> -> [ok |-> TRUE, num |-> 15, den |-> 1]
    [] n = <<"1", ".", "5">> -> [ok |-> TRUE, num |-> 15, den |-> 10]
    [] OTHER -> [ok |-> FALSE, num |-> 0, den |-> 1]

\* the multiplier of a unit, in any letter case; 0 when it is no unit
UnitValue(u) ==
  CASE u \in {<<>>, <<"b">>, <<"B">>} -> 1
    [] u \in {<<"k", "b">>, <<"K", "B">>, <<"K", "b">>} -> 1024
    [] u \in {<<"m", "b">>, <<"M", "B">>} -> 1024 * 1024
    [] u \in {<<"g", "b">>, <<"G", "B">>} -> 1024 * 1024 * 1024
    [] OTHER -> 0

\* what the size grammar says of a string: its value, or a configuration error
SizeOf(str) ==
  IF \E n \in NumberTexts, sp \in BlankTexts, u \in UnitTexts :
       str = n \o sp \o u /\ NumberValue(n).ok /\ UnitValue(u) > 0
    THEN LET c == CHOOSE c \in NumberTexts \X BlankTexts \X UnitTexts :
                    str = c[1] \o c[2] \o c[3] /\ NumberValue(c[1]).ok /\ UnitValue(c[3]) > 0
         IN  [err |-> FALSE, num |-> NumberValue(c[1]).num * UnitValue(c[3]),
              den |-> NumberValue(c[1]).den]
    ELSE SizeError

\* C13: every size parser maps <number>(b|kb|mb|gb)?, in any letter case and
\* bytes when no unit is given, to number x 1, 1024, 1024^2, 1024^3, and
\* raises a configuration error on every other string
SizeParsersFollowGrammar ==
  (mode = "parse" /\ pc = "parsed")
    => parsed.class = SizeOf(sizeInput) /\ parsed.alone = SizeOf(sizeInput)

\* the part of that statement about the parser of the classes
ClassParserFollowsGrammar ==
  (mode = "parse" /\ pc = "parsed") => parsed.class = SizeOf(sizeInput)

\* the file name follows an entry-point convention:
\* (index|main|app|server|...) with a js/jsx/ts/tsx extension
IsEntryPointName(name) == name \in {"index.ts", "app.ts", "main.ts"}

\* C18: every included file whose name follows an entry-point convention is
\* among the entry points of the result, in whatever directory it is, and no
\* excluded file is among them
EntryPointsInEveryDirectory ==
  Returned =>
    \A i \in 1..Len(classifiedFiles) :
      LET f == classifiedFiles[i]
      IN  /\ (f.isIncluded /\ IsEntryPointName(Last(f.path)))
               => f.relativePath \in Range(result.overview.entryPoints)
          /\ ~f.isIncluded => f.relativePath \notin Range(result.overview.entryPoints)

-----------------------------------------------------------------------------
(* IntelligentFilter.analyzeDirectory as one call                          *)
(*                                                                         *)
(* The call is followed to its end with every readdir and stat resolving:  *)
(* threw (shouldIncludeFile threw from parseSize), the FileMetadata[] that *)
(* is returned, and the directories readdir was called on.                 *)

RECURSIVE analyzeDirectory(_, _, _, _)
RECURSIVE visitEntries(_, _, _, _, _, _)

NothingAnalyzed == [threw |-> FALSE, files |-> <<>>, read |-> {}]

\* for (const entry of entries) { ... }, from entry i on; acc is what the
\* loop has collected so far
visitEntries(flt, dsk, dirPath, currentDepth, i, acc) ==
  LET names == readdir(dirPath)
      fullPath == join(dirPath, names[i])
  IN  IF i > Len(names) \/ acc.threw THEN acc
      ELSE IF isDirectory(fullPath)
        THEN IF shouldIncludeDirectory(flt, fullPath)
               THEN LET sub == analyzeDirectory(flt, dsk, fullPath, currentDepth + 1)
                    IN  visitEntries(flt, dsk, dirPath, currentDepth, i + 1,
                                     [threw |-> sub.threw,
                                      files |-> acc.files \o sub.files,
                                      read |-> acc.read \cup sub.read])
               ELSE visitEntries(flt, dsk, dirPath, currentDepth, i + 1, acc)
      ELSE IF shouldIncludeFileClass(flt, fullPath, dsk[fullPath]).threw
        THEN [acc EXCEPT !.threw = TRUE]
      ELSE visitEntries(flt, dsk, dirPath, currentDepth, i + 1,
                        [acc EXCEPT !.files = Append(@, analyzeFile(flt, fullPath, dsk[fullPath]))])

\* analyzeDirectory giving up one level later: currentDepth > maxDepth
analyzeDirectory_oneLevelLate(flt, dsk, dirPath, currentDepth) ==
  IF flt.config.maxDepth # NoDepth /\ currentDepth > flt.config.maxDepth
    THEN NothingAnalyzed
    ELSE visitEntries(flt, dsk, dirPath, currentDepth, 1,
                      [NothingAnalyzed EXCEPT !.read = {dirPath}])

\* IntelligentFilter.analyzeDirectory(dirPath, currentDepth)
analyzeDirectory(flt, dsk, dirPath, currentDepth) ==
  IF flt.config.maxDepth # NoDepth /\ currentDepth >= flt.config.maxDepth
    THEN NothingAnalyzed
    ELSE visitEntries(flt, dsk, dirPath, currentDepth, 1,
                      [NothingAnalyzed EXCEPT !.read = {dirPath}])

MaxDepth == 2

InitWalk ==
  /\ mode = "walk"
  /\ pc = "call"
  /\ \E mfs \in {Str100kb, Str1, StrBad}, inc \in {<<>>, << <<"src", GLOBSTAR>> >>},
        ign \in {<<>>, << <<"src">> >>} :
       config = [NoConfig EXCEPT !.maxFileSize = mfs, !.include = inc, !.ignore = ign]
  /\ disk \in ProcessDisks
  /\ \E d \in {Root, SrcDir, ModulesDir} :
       request = [op |-> "analyzeDirectory", dirPath |-> d, filePaths |-> <<>>]
  /\ \E depth \in {NoDepth} \cup 0..MaxDepth :
       filter = [NewFilter(config, Root, <<>>) EXCEPT !.config.maxDepth = depth]
  /\ todo = <<>> /\ worklist = <<>> /\ files = <<>> /\ allFiles = <<>>
  /\ pending = {} /\ classifiedFiles = <<>> /\ result = NoResult
  /\ statusBarItem = HiddenBar /\ timers = 0 /\ dirsRead = {} /\ error = NoError
  /\ DecideIdle /\ TreeIdle /\ EscIdle /\ PackIdle /\ CallIdle

\* filter.analyzeDirectory(dirPath) runs to its end
AnalyzeDirectoryCall ==
  /\ mode = "walk" /\ pc = "call"
  /\ \E r \in {analyzeDirectory(filter, disk, request.dirPath, 0)} :
         /\ files' = (IF r.threw THEN <<>> ELSE r.files)
         /\ dirsRead' = r.read
         /\ error' = (IF r.threw THEN [kind |-> "Invalid size format", path |-> <<>>]
                      ELSE error)
         /\ pc' = (IF r.threw THEN "failed" ELSE "returned")
  /\ UNCHANGED <<otherVars, request, filter, todo, worklist, allFiles, pending,
                 classifiedFiles, result, statusBarItem, timers>>

NextWalk == AnalyzeDirectoryCall

SpecWalk == InitWalk /\ [][NextWalk]_vars

\* the number of directory levels between the start directory and a file
LevelBelow(dirPath, filePath) == Len(filePath) - Len(dirPath) - 1

\* C16: with maxDepth = d set, analyzeDirectory returns only files fewer than
\* d levels below the start directory; with d = 0 it returns no file and
\* reads no directory
DepthBounded ==
  (mode = "walk" /\ pc = "returned" /\ filter.config.maxDepth # NoDepth)
    => /\ \A i \in 1..Len(files) :
            LevelBelow(request.dirPath, files[i].path) < filter.config.maxDepth
       /\ filter.config.maxDepth = 0 => (files = <<>> /\ dirsRead = {})

\* the walk of the root stopped above src, whose files lie one level too deep
DepthCutWitness ==
  /\ mode = "walk" /\ pc = "returned"
  /\ filter.config.maxDepth = 1
  /\ request.dirPath = Root
  /\ files # <<>>
  /\ dirsRead = {Root}

-----------------------------------------------------------------------------
(* CodebaseProcessor.processDirectory called again on the same processor   *)

\* classifier.classifyFile on every candidate, reading as `rd` tells
classifyAll(fileList, rd) ==
  [i \in 1..Len(fileList) |->
     classifyFile(fileList[i],
                  [ok |-> rd[fileList[i].path].ok,
                   text |-> FileText(fileList[i].path, fileList[i].size),
                   mult |-> rd[fileList[i].path].mult])]

Outcome(threw, res, flt) == [threw |-> threw, result |-> res, filter |-> flt]

\* the end of a run: rejected when the walk or the processing threw
finishRun(walk, r, newFilter) ==
  IF walk.threw \/ r.threw THEN Outcome(TRUE, NoResult, newFilter)
  ELSE Outcome(FALSE, r.result, newFilter)

\* processDirectory from the files the walk returned on
classifyAndProcess(walk, cfg, workspaceRoot, rd, newFilter) ==
  finishRun(walk, processClassifiedFiles(classifyAll(walk.files, rd), workspaceRoot, cfg),
            newFilter)

\* processDirectory analysing with the filter the processor held when it
\* was called, and replacing that filter afterwards
processDirectory_staleFilter(flt, cfg, dsk, dirPath, workspaceRoot, rd) ==
  classifyAndProcess(analyzeDirectory(flt, dsk, dirPath, 0), cfg, workspaceRoot, rd,
                     NewFilter(cfg, workspaceRoot, <<>>))

\* processDirectory(dirPath, workspaceRoot) run to its end with every
\* readdir and stat resolving, on a processor whose filter is flt: whether
\* it threw, the result, and the filter the processor holds afterwards
processDirectory(flt, cfg, dsk, dirPath, workspaceRoot, rd) ==
  classifyAndProcess(analyzeDirectory(NewFilter(cfg, workspaceRoot, <<>>), dsk, dirPath, 0),
                     cfg, workspaceRoot, rd, NewFilter(cfg, workspaceRoot, <<>>))

MaxRuns == 2

ReadChoices ==
  { [p \in DiskFiles |->
       IF p = Root \o <<"package.json">> THEN a
       ELSE IF p = SrcDir \o <<"index.ts">> THEN b
       ELSE IF p = SrcDir \o <<"util.ts">> THEN c
       ELSE [ok |-> FALSE, mult |-> 100]] :
      a \in {[ok |-> FALSE, mult |-> 100], [ok |-> TRUE, mult |-> 100]},
      b \in {[ok |-> FALSE, mult |-> 100], [ok |-> TRUE, mult |-> 80], [ok |-> TRUE, mult |-> 100]},
      c \in {[ok |-> FALSE, mult |-> 100], [ok |-> TRUE, mult |-> 100]} }

InitRerun ==
  /\ mode = "rerun"
  /\ pc = "idle"
  /\ config \in ProcessConfigs
  /\ disk \in ProcessDisks
  /\ \E d \in {Root, SrcDir} :
       request = [op |-> "processDirectory", dirPath |-> d, filePaths |-> <<>>]
  /\ reads \in ReadChoices
  /\ outcomes = <<>>
  /\ filter = NewFilter(config, <<>>, <<>>)
  /\ todo = <<>> /\ worklist = <<>> /\ files = <<>> /\ allFiles = <<>>
  /\ pending = {} /\ classifiedFiles = <<>> /\ result = NoResult
  /\ statusBarItem = HiddenBar /\ timers = 0 /\ dirsRead = {} /\ error = NoError
  /\ DecideIdle /\ TreeIdle /\ EscIdle /\ PackIdle /\ ParseIdle /\ ApplyIdle

\* one more processDirectory on the same processor, directory and configuration
RunProcessDirectory ==
  /\ mode = "rerun" /\ Len(outcomes) < MaxRuns
  /\ \E o \in {processDirectory(filter, config, disk, request.dirPath, Root, reads)} :
         /\ filter' = o.filter
         /\ result' = o.result
         /\ outcomes' = Append(outcomes, [threw |-> o.threw, result |-> o.result])
         /\ pc' = (IF o.threw THEN "failed" ELSE "done")
  /\ UNCHANGED <<mode, config, disk, decideVars, treeVars, escVars, packVars, parseVars,
                 request, todo, worklist, files, allFiles, dirsRead, pending,
                 classifiedFiles, statusBarItem, timers, error, reads, applyVars>>

NextRerun == RunProcessDirectory

SpecRerun == InitRerun /\ [][NextRerun]_vars

-----------------------------------------------------------------------------
(* OutputFormatter.format and ConfigLoader.validateConfig                  *)

\* validFormats of validateConfig, the cases of the switch of format
FormatAiOptimized == "ai-optimized"
FormatMarkdown == "markdown"
FormatStandard == "standard"
validFormats == <<FormatAiOptimized, FormatStandard, FormatMarkdown>>

\* String.prototype.localeCompare on relative paths, name by name: letters
\* compare without their case first (package < README < src), and no name of
\* the universe is the beginning of another
RECURSIVE localeCompare(_, _)
localeCompare(a, b) ==
  IF a = <<>> /\ b = <<>> THEN 0
  ELSE IF a = <<>> THEN 0 - 1
  ELSE IF b = <<>> THEN 1
  ELSE IF NameRank(Head(a)) < NameRank(Head(b)) THEN 0 - 1
  ELSE IF NameRank(Head(a)) > NameRank(Head(b)) THEN 1
  ELSE localeCompare(Tail(a), Tail(b))

\* Array.prototype.sort((a, b) => a.relativePath.localeCompare(b.relativePath)),
\* a stable sort
RECURSIVE insertByPath(_, _)
insertByPath(sorted, f) ==
  IF sorted # <<>> /\ localeCompare(f.relativePath, Last(sorted).relativePath) < 0
    THEN Append(insertByPath(SubSeq(sorted, 1, Len(sorted) - 1), f), Last(sorted))
    ELSE Append(sorted, f)

RECURSIVE sortByPath(_)
sortByPath(fs) ==
  IF fs = <<>> THEN <<>>
  ELSE insertByPath(sortByPath(SubSeq(fs, 1, Len(fs) - 1)), Last(fs))

\* the text of a relative path: its names joined by '/'
RECURSIVE pathText(_)
pathText(relativePath) ==
  IF Len(relativePath) <= 1 THEN relativePath
  ELSE <<Head(relativePath), "/">> \o pathText(Tail(relativePath))

\* output.join('\n')
RECURSIVE joinLines(_, _)
joinLines(lines, sep) ==
  IF lines = <<>> THEN <<>>
  ELSE IF Len(lines) = 1 THEN Head(lines)
  ELSE Head(lines) \o <<sep>> \o joinLines(Tail(lines), sep)

\* `// ${file.relativePath}`
pathComment(relativePath) == <<"/", "/", " ">> \o pathText(relativePath)

\* the lines formatStandard pushes for the files from the i-th on
RECURSIVE standardLines(_, _, _)
standardLines(sortedFiles, i, preserveStructure) ==
  IF i > Len(sortedFiles) THEN <<>>
  ELSE (IF preserveStructure THEN <<pathComment(sortedFiles[i].relativePath)>> ELSE <<>>)
       \o <<sortedFiles[i].content, <<>>, <<>>>>
       \o standardLines(sortedFiles, i + 1, preserveStructure)

\* the same with the files left in the order of result.files
formatStandard_unsorted(cfg, res) ==
  LET sortedFiles == SelectSeq(res.files, LAMBDA f : f.isIncluded /\ ContentTruthy(f))
  IN  trim(joinLines(standardLines(sortedFiles, 1, cfg.preserveStructure), "\n"))

\* OutputFormatter.formatStandard: the text it returns
formatStandard(cfg, res) ==
  LET sortedFiles ==
        sortByPath(SelectSeq(res.files, LAMBDA f : f.isIncluded /\ ContentTruthy(f)))
  IN  trim(joinLines(standardLines(sortedFiles, 1, cfg.preserveStructure), "\n"))

\* OutputFormatter.formatMarkdown: the directory tree lines and, for every
\* file of '## Source Files', its heading, its relevance line and its content
formatMarkdown(res) ==
  LET sortedFiles == sortByRelevance(SelectSeq(res.files,
                                               LAMBDA f : f.isIncluded /\ ContentTruthy(f)))
  IN  [structure |-> formatDirectoryTree(res.contextMap.projectStructure, 0),
       entryPoints |-> res.overview.entryPoints,
       sourceFiles |-> [i \in 1..Len(sortedFiles) |->
                          [heading |-> sortedFiles[i].relativePath,
                           hasRelevance |-> sortedFiles[i].hasScore,
                           relevance |-> sortedFiles[i].relevanceScore,
                           content |-> sortedFiles[i].content]]]

\* OutputFormatter.format: which formatter ran and what it returned
format(cfg, res) ==
  CASE cfg.outputFormat = FormatAiOptimized ->
         [formatter |-> "formatAiOptimized", output |-> formatAiOptimized(res)]
    [] cfg.outputFormat = FormatMarkdown ->
         [formatter |-> "formatMarkdown", output |-> formatMarkdown(res)]
    [] OTHER ->
         [formatter |-> "formatStandard", output |-> formatStandard(cfg, res)]

\* ConfigLoader.validateConfig: the errors it collects
validateConfig(cfg) ==
  LET sizeUnits == {UnitB, UnitKB, UnitMB, UnitGB}
      errors ==
        (IF SizeMatch(cfg.maxFileSize, sizeUnits).ok THEN <<>>
         ELSE <<"Invalid maxFileSize format">>)
        \o (IF SizeMatch(cfg.maxTotalSize, sizeUnits).ok THEN <<>>
            ELSE <<"Invalid maxTotalSize format">>)
        \o (IF cfg.outputFormat \in Range(validFormats) THEN <<>>
            ELSE <<"Invalid outputFormat">>)
  IN  [valid |-> errors = <<>>, errors |-> errors]

-----------------------------------------------------------------------------
(* Specification of the formatter: one result is formatted, one            *)
(* configuration is validated                                              *)

MaxFormatFiles == 3

\* a classified file as the formatter sees it
FormattedFile(relativePath, isIncluded, hasContent, content, relevanceScore) ==
  [path |-> Root \o relativePath,
   relativePath |-> relativePath,
   size |-> Len(content),
   extension |-> extname(Last(relativePath)),
   priority |-> "normal",
   isIncluded |-> isIncluded,
   exclusionReason |-> "",
   hasContent |-> hasContent, content |-> content,
   hasScore |-> isIncluded, relevanceScore |-> relevanceScore]

FormatCandidates ==
  { FormattedFile(<<"README.md">>, TRUE, TRUE, <<"#", " ", "a", "\n">>, 50),
    FormattedFile(<<"package.json">>, TRUE, TRUE, <<"{", "}">>, 90),
    FormattedFile(<<"src", "app.ts">>, TRUE, TRUE, <<"a", "<", "&">>, 70),
    FormattedFile(<<"src", "index.ts">>, TRUE, TRUE, <<>>, 80),
    FormattedFile(<<"src", "util.ts">>, FALSE, FALSE, <<>>, 0) }

\* the lists of different files, in every order
FormatFileLists ==
  { fs \in UNION { [1..n -> FormatCandidates] : n \in 0..MaxFormatFiles } :
      \A i, j \in 1..Len(fs) : i # j => fs[i] # fs[j] }

FormatNames == {FormatAiOptimized, FormatMarkdown, FormatStandard, "xml"}

FormatConfigs ==
  { [outputFormat |-> o, preserveStructure |-> ps, maxFileSize |-> mf,
     maxTotalSize |-> Str1kb] :
      o \in FormatNames, ps \in BOOLEAN, mf \in {Str100kb, StrBad} }

\* the ProcessingResult of a file list, not yet formatted
resultOf(fileList) ==
  [files |-> fileList,
   totalSize |-> SumSeq(sizes(fileList)),
   contextMap |-> buildContextMap(fileList, Root),
   overview |-> [entryPoints |-> detectEntryPoints(fileList)],
   formattedOutput |-> NoResult.formattedOutput]

InitFormat ==
  /\ mode = "format"
  /\ pc = "call"
  /\ config \in FormatConfigs
  /\ disk = NoDisk
  /\ \E fs \in FormatFileLists : callArgs = resultOf(fs)
  /\ callValue = <<>>
  /\ DecideIdle /\ TreeIdle /\ EscIdle /\ PackIdle /\ PipeIdle /\ ParseIdle /\ RerunIdle

\* this.formatter.format(result), as CodebaseProcessor calls it
Format ==
  /\ mode = "format" /\ pc = "call"
  /\ callValue' = [threw |-> FALSE, returned |-> format(config, callArgs)]
  /\ pc' = "formatted"
  /\ UNCHANGED <<mode, config, disk, callArgs, decideVars, treeVars, escVars, packVars,
                 pipeVars, parseVars, rerunVars>>

\* ConfigLoader.validateConfig(config), as the packCode command calls it
ValidateConfig ==
  /\ mode = "format" /\ pc = "call"
  /\ callValue' = [threw |-> FALSE, returned |-> validateConfig(config)]
  /\ pc' = "validated"
  /\ UNCHANGED <<mode, config, disk, callArgs, decideVars, treeVars, escVars, packVars,
                 pipeVars, parseVars, rerunVars>>

NextFormat == Format \/ ValidateConfig

SpecFormat == InitFormat /\ [][NextFormat]_vars

Formatted == mode = "format" /\ pc = "formatted"

\* C14: an output format outside the supported set is a configuration error:
\* OutputFormatter.format returns an error for it and renders nothing, in no
\* fallback format
UnknownFormatRejected ==
  (Formatted /\ config.outputFormat \notin Range(validFormats))
    => /\ callValue.threw
       /\ callValue.returned.formatter = ""

\* what does hold: validateConfig reports the unknown format
UnknownFormatInvalid ==
  (mode = "format" /\ pc = "validated")
    => (callValue.returned.valid
          <=> /\ config.outputFormat \in Range(validFormats)
              /\ ~parseSize(config.maxFileSize).err
              /\ ~parseSize(config.maxTotalSize).err)

\* the files formatStandard is to write
selectedFiles(res) == { f \in Range(res.files) : f.isIncluded /\ ContentTruthy(f) }

\* a set of files with different paths, in ascending order of relative path
RECURSIVE AscendingPaths(_)
AscendingPaths(S) ==
  IF S = {} THEN <<>>
  ELSE LET m == CHOOSE x \in S :
                  \A y \in S : localeCompare(x.relativePath, y.relativePath) <= 0
       IN  <<m>> \o AscendingPaths(S \ {m})

NonBlank(lines) == SelectSeq(lines, LAMBDA l : l # <<>>)

\* the lines that are not blank of the plain text of the files fs
RECURSIVE PlainBlocks(_, _)
PlainBlocks(fs, preserveStructure) ==
  IF fs = <<>> THEN <<>>
  ELSE (IF preserveStructure
          THEN << <<"/", "/", " ">> \o pathText(Head(fs).relativePath) >> ELSE <<>>)
       \o NonBlank(split(Head(fs).content, "\n"))
       \o PlainBlocks(Tail(fs), preserveStructure)

\* C15: formatStandard writes the selected files in ascending order of
\* relative path whatever their order in result.files, the line
\* '// <relativePath>' before a file's content exactly when preserveStructure
\* is true, and nothing else: no overview, tree, relevance or escaping
StandardOrderAndComments ==
  (Formatted /\ callValue.returned.formatter = "formatStandard")
    => NonBlank(split(callValue.returned.output, "\n"))
         = PlainBlocks(AscendingPaths(selectedFiles(callArgs)), config.preserveStructure)

StandardReorderedWitness ==
  /\ Formatted
  /\ config.outputFormat = FormatStandard
  /\ config.preserveStructure
  /\ Len(callArgs.files) = 3
  /\ callArgs.files[1].relativePath = <<"src", "app.ts">>
  /\ callArgs.files[2].relativePath = <<"README.md">>
  /\ callArgs.files[3].relativePath = <<"package.json">>
  /\ split(callValue.returned.output, "\n")
       = << <<"/", "/", " ", "package.json">>, <<"{", "}">>, <<>>, <<>>,
            <<"/", "/", " ", "README.md">>, <<"#", " ", "a">>, <<>>, <<>>, <<>>,
            <<"/", "/", " ", "src", "/", "app.ts">>, <<"a", "<", "&">> >>

-----------------------------------------------------------------------------
(* processUris: the packCode command on several selected files and folders *)

\* for (const filePath of filePaths) { analyzeDirectory(dirname); find }, from
\* the i-th path on; acc is allFiles so far
\* const targetFile = files.find(f => f.path === filePath);
\* if (targetFile) allFiles.push(targetFile)
pushTarget(walk, filePath, acc) ==
  [threw |-> walk.threw,
   files |-> acc.files \o Take(SelectSeq(walk.files, LAMBDA f : f.path = filePath), 1)]

RECURSIVE lookUpFiles(_, _, _, _, _)
lookUpFiles(flt, dsk, filePaths, i, acc) ==
  IF i > Len(filePaths) \/ acc.threw THEN acc
  ELSE lookUpFiles(flt, dsk, filePaths, i + 1,
                   pushTarget(analyzeDirectory(flt, dsk, dirname(filePaths[i]), 0),
                              filePaths[i], acc))

\* processFiles(filePaths, workspaceRoot) run to its end with every readdir
\* and stat resolving
classifyAndTrim(found, cfg, workspaceRoot, rd, newFilter) ==
  finishRun(found, processFilesTail(classifyAll(found.files, rd), workspaceRoot, cfg),
            newFilter)

processFiles(flt, cfg, dsk, filePaths, workspaceRoot, rd) ==
  classifyAndTrim(lookUpFiles(NewFilter(cfg, workspaceRoot, <<>>), dsk, filePaths, 1,
                              [threw |-> FALSE, files |-> <<>>]),
                  cfg, workspaceRoot, rd, NewFilter(cfg, workspaceRoot, <<>>))

\* uris.map(async uri => stat.isDirectory() ? processDirectory : processFiles)
\* on the one processor of the call; every run installs an equal filter
processEach(flt, cfg, dsk, uris, workspaceRoot, rd) ==
  [i \in 1..Len(uris) |->
     IF isDirectory(uris[i])
       THEN processDirectory(flt, cfg, dsk, uris[i], workspaceRoot, rd)
       ELSE processFiles(flt, cfg, dsk, <<uris[i]>>, workspaceRoot, rd)]

MaxUris == 2

SelectableUris == {SrcDir, Root \o <<"package.json">>, SrcDir \o <<"index.ts">>,
               SrcDir \o <<"util.ts">>}

\* what extractUniqueUris hands over: one or more different uris
UriLists ==
  { us \in UNION { [1..n -> SelectableUris] : n \in 1..MaxUris } :
      \A i, j \in 1..Len(us) : i # j => us[i] # us[j] }

AllReadable == [p \in DiskFiles |-> [ok |-> TRUE, mult |-> 100]]

InitUris ==
  /\ mode = "uris"
  /\ pc = "call"
  /\ config \in ProcessConfigs
  /\ disk \in ProcessDisks
  /\ callArgs \in UriLists
  /\ callValue = <<>>
  /\ reads \in {AllReadable, [AllReadable EXCEPT ![SrcDir \o <<"util.ts">>].ok = FALSE]}
  /\ outcomes = <<>>
  /\ clipboard = <<>>
  /\ message = ""
  /\ packArgs = <<>> /\ combinedCode = <<>>
  /\ DecideIdle /\ TreeIdle /\ EscIdle /\ PipeIdle /\ ParseIdle

\* processUris(uris, config, workspaceRoot): Promise.all of the runs, then
\* mergedResult = results[0] goes to the clipboard and is announced
ProcessUris ==
  /\ mode = "uris" /\ pc = "call"
  /\ \E results \in {processEach(NewFilter(config, <<>>, <<>>), config, disk, callArgs,
                                 Root, reads)} :
       IF \E i \in 1..Len(results) : results[i].threw
         THEN /\ pc' = "failed"
              /\ callValue' = <<>>
              /\ UNCHANGED <<clipboard, message>>
         ELSE /\ pc' = "copied"
              /\ callValue' = [i \in 1..Len(results) |-> results[i].result]
              /\ clipboard' = results[1].result.formattedOutput   \* mergedResult
              /\ message' = "packed and copied to clipboard"
  /\ UNCHANGED <<mode, config, disk, callArgs, decideVars, treeVars, escVars, packArgs,
                 combinedCode, pipeVars, parseVars, rerunVars>>

NextUris == ProcessUris

SpecUris == InitUris /\ [][NextUris]_vars

\* the total size of what the pipeline selected for each root
RECURSIVE SelectedSize(_)
SelectedSize(results) ==
  IF results = <<>> THEN 0 ELSE Head(results).totalSize + SelectedSize(Tail(results))

\* C17: with several roots selected, what is copied to the clipboard covers
\* every root: a file the pipeline packs for any of the selected roots is in
\* the copied output (all of them fitting the budget together), not only the
\* files of the first root
ClipboardCoversEveryRoot ==
  (/\ mode = "uris" /\ pc = "copied"
   /\ SizeLe(SelectedSize(callValue), parseSize(config.maxTotalSize)))
    => \A i \in 1..Len(callValue) :
         \A k \in 1..Len(callValue[i].formattedOutput.sourceFiles) :
           \E c \in 1..Len(clipboard.sourceFiles) :
             clipboard.sourceFiles[c] = callValue[i].formattedOutput.sourceFiles[k]

-----------------------------------------------------------------------------
(* Specification of the budget step of processFiles: a list of classified  *)
(* files is selected under maxTotalSize, then one admitted file is taken   *)
(* out of the list and the step runs again                                 *)

MaxCandidates == 3
MaxCandSize == 3

CandidateNames == <<"f1", "f2", "f3", "f4", "f5", "f6", "f7", "f8", "f9", "f10">>

\* what a candidate can be: read and scored, included but not read, excluded
CandidateKinds ==
  { [size |-> sz, score |-> sc, isIncluded |-> TRUE, hasContent |-> TRUE] :
      sz \in 1..MaxCandSize, sc \in {50, 90} }
  \cup { [size |-> 1, score |-> 90, isIncluded |-> TRUE, hasContent |-> FALSE],
         [size |-> 1, score |-> 90, isIncluded |-> FALSE, hasContent |-> FALSE] }

\* the classified file of the i-th candidate
Candidate(i, k) ==
  [FormattedFile(<<CandidateNames[i]>>, k.isIncluded, k.hasContent,
                 IF k.hasContent THEN [j \in 1..k.size |-> "a"] ELSE <<>>, k.score)
     EXCEPT !.size = k.size]

\* ten equally scored candidates of one byte each
TenEqual ==
  [i \in 1..10 |-> Candidate(i, [size |-> 1, score |-> 50, isIncluded |-> TRUE,
                                 hasContent |-> TRUE])]

CandidateLists ==
  { [i \in 1..Len(ks) |-> Candidate(i, ks[i])] :
      ks \in UNION { [1..n -> CandidateKinds] : n \in 0..MaxCandidates } }
  \cup {TenEqual}

Budgets == { Str2, <<"2", ".", "5">>, <<"6">> }

InitBudget ==
  /\ mode = "budget"
  /\ pc = "call"
  /\ \E b \in Budgets : config = [NoConfig EXCEPT !.maxTotalSize = b]
  /\ disk = NoDisk
  /\ callArgs \in CandidateLists
  /\ callValue = <<>>
  /\ DecideIdle /\ TreeIdle /\ EscIdle /\ PackIdle /\ PipeIdle /\ ParseIdle /\ RerunIdle

\* processFiles from the classified files on: the totalSize check and the trim
SelectWithinBudget ==
  /\ mode = "budget" /\ pc = "call"
  /\ \E r \in {processFilesTail(callArgs, Root, config)} :
       callValue' = [files |-> r.result.files, totalSize |-> r.result.totalSize,
                     removed |-> <<>>, again |-> <<>>]
  /\ pc' = "selected"
  /\ UNCHANGED <<mode, config, disk, callArgs, decideVars, treeVars, escVars, packVars,
                 pipeVars, parseVars, rerunVars>>

\* the same step on the list without one of the files it admitted
RemoveAndRerun ==
  /\ mode = "budget" /\ pc = "selected"
  /\ \E a \in 1..Len(callValue.files) :
       \E r \in {processFilesTail(SelectSeq(callArgs, LAMBDA f : f # callValue.files[a]),
                                  Root, config)} :
         callValue' = [callValue EXCEPT !.removed = <<callValue.files[a]>>,
                                        !.again = r.result.files]
  /\ pc' = "rerun"
  /\ UNCHANGED <<mode, config, disk, callArgs, decideVars, treeVars, escVars, packVars,
                 pipeVars, parseVars, rerunVars>>

NextBudget == SelectWithinBudget \/ RemoveAndRerun

SpecBudget == InitBudget /\ [][NextBudget]_vars

\* the reference single-pass greedy --------------------------------------

\* candidate i is taken before candidate j: higher score, or the same score
\* and discovered earlier
TakenBefore(L, i, j) ==
  \/ ScoreOrZero(L[i]) > ScoreOrZero(L[j])
  \/ ScoreOrZero(L[i]) = ScoreOrZero(L[j]) /\ i < j

GreedyOrder(L) ==
  [k \in 1..Len(L) |->
     L[CHOOSE i \in 1..Len(L) :
         Cardinality({j \in 1..Len(L) : TakenBefore(L, j, i)}) = k - 1]]

\* one pass over `ordered` from the k-th on with `total` admitted so far
RECURSIVE GreedyPass(_, _, _, _)
GreedyPass(ordered, k, total, B) ==
  IF k > Len(ordered) THEN <<>>
  ELSE IF SizeLe(total + ordered[k].size, B)
    THEN <<ordered[k]>> \o GreedyPass(ordered, k + 1, total + ordered[k].size, B)
    ELSE GreedyPass(ordered, k + 1, total, B)

ReferenceGreedy(candidates, B) ==
  GreedyPass(GreedyOrder(SelectSeq(candidates, LAMBDA f : f.isIncluded /\ ContentTruthy(f))),
             1, 0, B)

Selected == mode = "budget" /\ pc \in {"selected", "rerun"}

\* C19: the budget step of processFiles admits exactly what the reference
\* single-pass greedy admits (descending score, ties in discovery order,
\* admitted iff the sizes admitted so far plus its own are at most
\* maxTotalBytes, a skip neither admitted later nor ending the pass), and
\* when it trims, in that order: ten equal candidates with room for six
\* give the first six
BudgetStepIsGreedy ==
  Selected =>
    \E ref \in {ReferenceGreedy(callArgs, parseSize(config.maxTotalSize))} :
      /\ Range(callValue.files) = Range(ref)
      /\ Len(callValue.files) = Len(ref)
      /\ callValue.totalSize = SumSeq(sizes(ref))
      /\ Len(ref) < Len(SelectSeq(callArgs, LAMBDA f : f.isIncluded /\ ContentTruthy(f)))
           => callValue.files = ref

TenEqualFirstSixWitness ==
  /\ Selected
  /\ callArgs = TenEqual
  /\ config.maxTotalSize = <<"6">>
  /\ callValue.files = SubSeq(TenEqual, 1, 6)

\* a skipped candidate does not end the pass: a later one that fits is admitted
SkipThenAdmitWitness ==
  /\ Selected
  /\ Len(callArgs) = 3
  /\ Len(callValue.files) = 2
  /\ callValue.files[1] = callArgs[1]
  /\ callValue.files[2] = callArgs[3]
  /\ callArgs[2].isIncluded /\ ContentTruthy(callArgs[2])

\* C20: if S is the selection for the list L under budget B and a is a file
\* of S, the step on L without a under B selects files whose sizes sum to at
\* least the sizes of S without a
RemovalKeepsBytes ==
  (mode = "budget" /\ pc = "rerun")
    => SumSeq(sizes(callValue.again))
         >= SumSeq(sizes(callValue.files)) - callValue.removed[1].size

\* the removal changes what the later candidates get: one that was skipped
\* is admitted in the second run
RemovalAdmitsSkippedWitness ==
  /\ mode = "budget" /\ pc = "rerun"
  /\ \E f \in Range(callValue.again) : f \notin Range(callValue.files)
  /\ SumSeq(sizes(callValue.again))
       > SumSeq(sizes(callValue.files)) - callValue.removed[1].size

-----------------------------------------------------------------------------
(* Directory pruning during analyzeDirectory                               *)

\* the relative path of a directory matches a default exclusion
DirDefaultExcluded(dirPath) ==
  \E i \in 1..Len(DEFAULT_EXCLUSIONS) :
    \/ minimatch(relative(Root, dirPath), DEFAULT_EXCLUSIONS[i], FALSE, FALSE)
    \/ minimatch(relative(Root, dirPath), DEFAULT_EXCLUSIONS[i], FALSE, TRUE)

\* the relative path of a directory matches a user ignore pattern
DirUserIgnored(dirPath) == MatchesAny(relative(Root, dirPath), filter.config.ignore, FALSE)

\* the directories between the start directory (excluded) and a file
DirsAbove(filePath) ==
  { SubSeq(filePath, 1, n) : n \in (Len(request.dirPath) + 1)..(Len(filePath) - 1) }

Walked == mode = "walk" /\ pc \in {"returned", "failed"}

\* C22: during analyzeDirectory a directory whose relative path matches a
\* default exclusion or a user ignore pattern is never read, and no file
\* below it is analysed
ExcludedDirectoriesNeverRead ==
  Walked =>
    /\ \A d \in dirsRead \ {request.dirPath} :
         ~DirDefaultExcluded(d) /\ ~DirUserIgnored(d)
    /\ \A i \in 1..Len(files) : \A d \in DirsAbove(files[i].path) :
         ~DirDefaultExcluded(d) /\ ~DirUserIgnored(d)

\* what does hold: the directories of the default exclusions are pruned
DefaultExcludedNeverRead ==
  Walked =>
    /\ \A d \in dirsRead \ {request.dirPath} : ~DirDefaultExcluded(d)
    /\ \A i \in 1..Len(files) : \A d \in DirsAbove(files[i].path) : ~DirDefaultExcluded(d)

-----------------------------------------------------------------------------
(* The barrier between classification and the later stages                 *)

\* C23: in processDirectory and processFiles, tree building, budgeting and
\* rendering (the step that produces the result) start only after every
\* classifyFile task of the invocation has completed, and work on the list
\* as the tasks left it
StagesAfterAllClassified ==
  [][(mode = "process" /\ (result' # result \/ pc' = "done"))
       => /\ pending = {}
          /\ classifiedFiles' = classifiedFiles]_vars

\* a call returned after two classification tasks had run
ClassifiedThenProcessedWitness ==
  /\ Returned
  /\ pending = {}
  /\ Cardinality({i \in 1..Len(classifiedFiles) : classifiedFiles[i].hasScore}) >= 2
  /\ Len(result.files) >= 2

-----------------------------------------------------------------------------
(* Order of the children in the trees                                      *)

\* directories before files, then by name
OrderKey(node) == (IF node.type = "directory" THEN 0 ELSE 100) + NameRank(node.name)

InOrder(nodes) == \A i, j \in 1..Len(nodes) : i < j => OrderKey(nodes[i]) <= OrderKey(nodes[j])

\* what a children array holds: its elements, then its named properties in
\* the order they were set (Object.values)
ChildrenOf(node) == node.elems \o node.props

RECURSIVE OrderedAtEveryDepth(_)
OrderedAtEveryDepth(nodes) ==
  /\ InOrder(nodes)
  /\ \A i \in 1..Len(nodes) :
       nodes[i].type = "directory" => OrderedAtEveryDepth(ChildrenOf(nodes[i]))

Built == mode = "tree" /\ pc = "built"

\* C24: in every tree of buildDirectoryTree and of buildFileTree the children
\* of every directory node, at every depth, are ordered directories before
\* files and by name within each kind
ChildrenOrderedAtEveryDepth ==
  Built => /\ OrderedAtEveryDepth(projectStructure)
           /\ OrderedAtEveryDepth(<<callValue>>)

\* what does hold: the order at every depth of buildFileTree, and at the
\* root level of buildDirectoryTree
FileTreeOrdered == Built => OrderedAtEveryDepth(<<callValue>>)

RootLevelOrdered == Built => InOrder(projectStructure)

-----------------------------------------------------------------------------
(* Specification of the priority of one included file                      *)

PriorityDirs ==
  { <<>>, <<"src">>, <<"lib">>, <<"app">>, <<"docs">>, <<"test">>, <<"src", "lib">>,
    <<"docs", "src">> }

PriorityNames ==
  { "README.md", "package.json", "tsconfig.json", "index.ts", "app.ts", "guide.md",
    "ci.json", "debug.log", "notes" }

InitPriority ==
  /\ mode = "priority"
  /\ pc = "call"
  /\ config = NoConfig
  /\ disk = NoDisk
  /\ \E d \in PriorityDirs, n \in PriorityNames : callArgs = Append(d, n)
  /\ callValue = <<>>
  /\ DecideIdle /\ TreeIdle /\ EscIdle /\ PackIdle /\ PipeIdle /\ ParseIdle /\ RerunIdle

\* shouldIncludeFile's call, with the extension, the lower-cased base name and
\* the relative path it derives from the file path
CalculateFilePriority ==
  /\ mode = "priority" /\ pc = "call"
  /\ callValue' = <<calculateFilePriority(extname(Last(callArgs)),
                                          basenameLower(Last(callArgs)), callArgs)>>
  /\ pc' = "returned"
  /\ UNCHANGED <<mode, config, disk, callArgs, decideVars, treeVars, escVars, packVars,
                 pipeVars, parseVars, rerunVars>>

NextPriority == CalculateFilePriority

SpecPriority == InitPriority /\ [][NextPriority]_vars

PriorityReturned == mode = "priority" /\ pc = "returned"

CanonicalFile(p) == basenameLower(Last(p)) \in {"readme.md", "package.json", "tsconfig.json"}

UnderMainDirectory(p) == Len(p) > 1 /\ p[1] \in {"src", "lib", "app"}

\* C25: the priority is above 90 for the canonical project files and for the
\* TypeScript files under src/, and below 90 for every file that is neither
\* canonical nor under src/, lib/ or app/
PriorityBands ==
  PriorityReturned =>
    /\ (CanonicalFile(callArgs) \/ (callArgs[1] = "src" /\ Len(callArgs) > 1
                                      /\ extname(Last(callArgs)) = ".ts"))
         => callValue[1] > 90
    /\ (~CanonicalFile(callArgs) /\ ~UnderMainDirectory(callArgs)) => callValue[1] < 90

\* what does hold: the upper band
CanonicalAndSourceAbove90 ==
  PriorityReturned =>
    ((CanonicalFile(callArgs) \/ (callArgs[1] = "src" /\ Len(callArgs) > 1
                                    /\ extname(Last(callArgs)) = ".ts"))
       => callValue[1] > 90)

-----------------------------------------------------------------------------
(* The total of a returned result                                          *)

\* C26: in every returned ProcessingResult, of processDirectory and of
\* processFiles, totalSize is the sum of the sizes of the files of
\* result.files, also when the budget trimmed the candidates
TotalSizeIsSumOfFiles ==
  Returned => result.totalSize = SumSeq(sizes(result.files))

\* what does hold: the equality for processFiles, trimmed or not
ProcessFilesTotalIsSum ==
  (Returned /\ request.op = "processFiles")
    => result.totalSize = SumSeq(sizes(result.files))

-----------------------------------------------------------------------------
(* The files whose content the structured output renders                   *)

RenderedPaths(elements) == {elements[i].path : i \in 1..Len(elements)}

\* C27: every file whose content the structured output renders, in the
\* source_files block or in the configuration block, is a file of the final
\* selection result.files: a config file dropped by the budget has no
\* content in the output
RenderedOnlyFinalSelection ==
  Returned =>
    \A p \in RenderedPaths(result.formattedOutput.sourceFiles)
               \cup RenderedPaths(result.formattedOutput.configuration) :
      InResultFiles(p)

\* what does hold: the source_files block renders files of result.files only
SourceFilesOnlyFinalSelection ==
  Returned => \A p \in RenderedPaths(result.formattedOutput.sourceFiles) : InResultFiles(p)

-----------------------------------------------------------------------------
(* The status bar after a call has completed                               *)

\* the event loop fires every timer that was set
SpecFair == Init /\ [][Next]_vars /\ WF_vars(HideStatusBar)

Completed == mode = "process" /\ pc \in {"done", "failed"}

InProgressTexts == {TextScanning, TextAnalyzing, TextClassifying}

\* C28: after every call of processFiles or processDirectory that completes,
\* by returning (trimmed or not) or by throwing, the status bar item no
\* longer shows an in-progress text and is eventually hidden
StatusBarSettles ==
  /\ [](Completed => statusBarItem.text \notin InProgressTexts)
  /\ (Completed ~> ~statusBarItem.visible)

\* what does hold: a call that completes with its final text set is
\* eventually hidden
FinalTextEventuallyHidden ==
  (Completed /\ statusBarItem.text \in {TextPacked, TextFailed}) ~> ~statusBarItem.visible

-----------------------------------------------------------------------------
(* processUris: the invocations of Promise.all interleaved on one processor *)
(*                                                                         *)
(* callArgs are the uris; callValue[i] is invocation i: its position, the  *)
(* locals of its call (the filter object its walk runs on, the files       *)
(* found) and what it settled with. filter, statusBarItem and timers are   *)
(* the fields of the one CodebaseProcessor and the one status bar item.    *)
(* An invocation advances from one await to the next in one step.          *)

ConcurrentConfigs ==
  { [NoConfig EXCEPT !.maxFileSize = Str100kb, !.maxTotalSize = mts, !.include = inc] :
      mts \in {Str2, Str1kb, StrBad}, inc \in {<<>>, << <<"src", GLOBSTAR>> >>} }

\* a pair of different selected uris
ConcurrentUris == { us \in SelectableUris \X SelectableUris : us[1] # us[2] }

Invocation(uri) ==
  [uri |-> uri, pc |-> "stat", flt |-> NoFilter,
   found |-> [threw |-> FALSE, files |-> <<>>],
   threw |-> FALSE, result |-> NoResult, overlapped |-> FALSE]

InFlight(inv) == inv.pc \in {"walking", "classifying"}

Settled(inv) == inv.pc \in {"done", "failed"}

InitConcurrent ==
  /\ mode = "concurrent"
  /\ pc = "all"
  /\ config \in ConcurrentConfigs
  /\ disk \in ProcessDisks
  /\ callArgs \in ConcurrentUris
  /\ callValue = [i \in 1..Len(callArgs) |-> Invocation(callArgs[i])]
  /\ reads \in {AllReadable, [AllReadable EXCEPT ![SrcDir \o <<"util.ts">>].ok = FALSE]}
  /\ outcomes = <<>>
  /\ request = NoRequest
  /\ filter = NewFilter(config, <<>>, <<>>)
  /\ todo = <<>> /\ worklist = <<>> /\ files = <<>> /\ allFiles = <<>>
  /\ pending = {} /\ classifiedFiles = <<>> /\ result = NoResult
  /\ statusBarItem = HiddenBar /\ timers = 0 /\ dirsRead = {} /\ error = NoError
  /\ DecideIdle /\ TreeIdle /\ EscIdle /\ PackIdle /\ ParseIdle

concurrentFrame ==
  <<mode, pc, config, disk, decideVars, treeVars, escVars, packVars, parseVars, reads,
    outcomes, callArgs, request, todo, worklist, files, allFiles, dirsRead, pending,
    classifiedFiles, result, error>>

\* after fs.promises.stat: processDirectory or processFiles up to the first
\* await inside analyzeDirectory. The status bar is shown, this.filter is
\* replaced and analyzeDirectory is called on the new object
StartInvocation(i) ==
  /\ mode = "concurrent" /\ callValue[i].pc = "stat"
  /\ statusBarItem' = [text |-> IF isDirectory(callValue[i].uri) THEN TextScanning
                                ELSE TextAnalyzing,
                       visible |-> TRUE]
  /\ filter' = NewFilter(config, Root, <<>>)
  /\ callValue' = [k \in 1..Len(callValue) |->
                     IF k = i THEN [callValue[i] EXCEPT !.pc = "walking", !.flt = filter',
                                      !.overlapped = \E j \in 1..Len(callValue) :
                                                        InFlight(callValue[j])]
                     ELSE IF InFlight(callValue[k])
                       THEN [callValue[k] EXCEPT !.overlapped = TRUE]
                     ELSE callValue[k]]
  /\ UNCHANGED <<concurrentFrame, timers>>

\* what the walk of invocation i leaves in its local: the files of the
\* directory, or of processFiles' one path the target found in its directory
foundBy(inv, dsk) ==
  IF isDirectory(inv.uri) THEN analyzeDirectory(inv.flt, dsk, inv.uri, 0)
  ELSE pushTarget(analyzeDirectory(inv.flt, dsk, dirname(inv.uri), 0), inv.uri,
                  [threw |-> FALSE, files |-> <<>>])

\* the walk keeping what it found in a field of the processor instead of a
\* local of the call: the invocations waiting for their classification read
\* the files of the walk that ended last
WalkInvocation_sharedFiles(i) ==
  /\ mode = "concurrent" /\ callValue[i].pc = "walking"
  /\ \E w \in {foundBy(callValue[i], disk)} :
       IF w.threw
         THEN /\ callValue' = [callValue EXCEPT ![i].pc = "failed", ![i].threw = TRUE]
              /\ statusBarItem' = [statusBarItem EXCEPT !.text = TextFailed]
              /\ timers' = timers + 1
         ELSE /\ callValue' = [k \in 1..Len(callValue) |->
                                 IF k = i THEN [callValue[i] EXCEPT !.pc = "classifying",
                                                                    !.found = w]
                                 ELSE IF callValue[k].pc = "classifying"
                                   THEN [callValue[k] EXCEPT !.found = w]
                                 ELSE callValue[k]]
              /\ statusBarItem' = [statusBarItem EXCEPT !.text = TextClassifying]
              /\ UNCHANGED timers
  /\ UNCHANGED <<concurrentFrame, filter>>

\* analyzeDirectory resolves or rejects: the catch block, or the text of the
\* next stage and the start of the classifyFile tasks
WalkInvocation(i) ==
  /\ mode = "concurrent" /\ callValue[i].pc = "walking"
  /\ \E w \in {foundBy(callValue[i], disk)} :
       IF w.threw
         THEN /\ callValue' = [callValue EXCEPT ![i].pc = "failed", ![i].threw = TRUE]
              /\ statusBarItem' = [statusBarItem EXCEPT !.text = TextFailed]
              /\ timers' = timers + 1
         ELSE /\ callValue' = [callValue EXCEPT ![i].pc = "classifying", ![i].found = w]
              /\ statusBarItem' = [statusBarItem EXCEPT !.text = TextClassifying]
              /\ UNCHANGED timers
  /\ UNCHANGED <<concurrentFrame, filter>>

\* the rest of the call once Promise.all of the classifyFile tasks resolved
restOf(inv, cfg, rd) ==
  IF isDirectory(inv.uri)
    THEN processClassifiedFiles(classifyAll(inv.found.files, rd), Root, cfg)
    ELSE processFilesTail(classifyAll(inv.found.files, rd), Root, cfg)

\* Promise.all of the classifyFile tasks resolves and the call runs to its
\* end: processClassifiedFiles, or the tail of processFiles
FinishInvocation(i) ==
  /\ mode = "concurrent" /\ callValue[i].pc = "classifying"
  /\ \E r \in {restOf(callValue[i], config, reads)} :
       IF r.threw
         THEN /\ callValue' = [callValue EXCEPT ![i].pc = "failed", ![i].threw = TRUE]
              /\ IF isDirectory(callValue[i].uri)
                   THEN UNCHANGED <<statusBarItem, timers>>
                   ELSE /\ statusBarItem' = [statusBarItem EXCEPT !.text = TextFailed]
                        /\ timers' = timers + 1
         ELSE /\ callValue' = [callValue EXCEPT ![i].pc = "done", ![i].result = r.result]
              /\ IF ~isDirectory(callValue[i].uri) /\ r.trimmed
                   THEN UNCHANGED <<statusBarItem, timers>>
                   ELSE /\ statusBarItem' = [statusBarItem EXCEPT !.text = TextPacked]
                        /\ timers' = timers + 1
  /\ UNCHANGED <<concurrentFrame, filter>>

\* a timer set by one of the invocations fires
HideSharedStatusBar ==
  /\ mode = "concurrent" /\ timers > 0
  /\ statusBarItem' = [statusBarItem EXCEPT !.visible = FALSE]
  /\ timers' = timers - 1
  /\ UNCHANGED <<concurrentFrame, filter, callValue>>

NextConcurrent ==
  \/ \E i \in 1..Len(callValue) : StartInvocation(i)
  \/ \E i \in 1..Len(callValue) : WalkInvocation(i)
  \/ \E i \in 1..Len(callValue) : FinishInvocation(i)
  \/ HideSharedStatusBar

SpecConcurrent == InitConcurrent /\ [][NextConcurrent]_vars

\* invocation i run alone on a processor of its own
Alone(i) ==
  IF isDirectory(callArgs[i])
    THEN processDirectory(NewFilter(config, <<>>, <<>>), config, disk, callArgs[i], Root, reads)
    ELSE processFiles(NewFilter(config, <<>>, <<>>), config, disk, <<callArgs[i]>>, Root, reads)

-----------------------------------------------------------------------------
(* Specification of extractUniqueUris alone                                *)

MaxExtractArgs == 3

ExtractPaths ==
  { SrcDir, SrcDir \o <<"index.ts">>, Root \o <<"src2">>, Root \o <<"src2", "index.ts">>,
    Root \o <<"package.json">> }

\* the arguments of the command: Uris, and arrays of two Uris
ExtractArgChoices ==
  UNION { [1..n -> {Uri(q) : q \in ExtractPaths}] : n \in 0..MaxExtractArgs }
  \cup { <<Uri(q), UriArray(<<q, r>>)>> : q, r \in ExtractPaths }

InitExtract ==
  /\ mode = "extract"
  /\ pc = "call"
  /\ config = NoConfig
  /\ disk = NoDisk
  /\ callArgs \in ExtractArgChoices
  /\ callValue = <<>>
  /\ DecideIdle /\ TreeIdle /\ EscIdle /\ PackIdle /\ PipeIdle /\ ParseIdle /\ RerunIdle

\* const uris = extractUniqueUris(args)
ExtractUniqueUris ==
  /\ mode = "extract" /\ pc = "call"
  /\ callValue' = extractUniqueUris(callArgs)
  /\ pc' = "returned"
  /\ UNCHANGED <<mode, config, disk, callArgs, decideVars, treeVars, escVars, packVars,
                 pipeVars, parseVars, rerunVars>>

NextExtract == ExtractUniqueUris

SpecExtract == InitExtract /\ [][NextExtract]_vars

Extracted == mode = "extract" /\ pc = "returned"

\* child lies inside the directory parent
Inside(child, parent) == IsPrefix(parent, child) /\ child # parent

\* C30: extractUniqueUris returns each path at most once, never two uris of
\* which one is inside the directory of the other, in whatever order they
\* are passed, and it drops a uri only when that path or one of its ancestor
\* directories is among the arguments
UniqueAndParentsOnly ==
  Extracted =>
    /\ \A i, j \in 1..Len(callValue) : i # j => callValue[i] # callValue[j]
    /\ \A i, j \in 1..Len(callValue) : ~Inside(callValue[i], callValue[j])
    /\ \A q \in Range(flattenArray(callArgs)) :
         q \notin Range(callValue)
           => \E r \in Range(flattenArray(callArgs)) : Inside(q, r)

\* what does hold: no path twice, and a uri that first comes after a
\* directory it lies in is dropped
NoPathTwice ==
  Extracted => \A i, j \in 1..Len(callValue) : i # j => callValue[i] # callValue[j]

ParentFirstDropsChild ==
  Extracted =>
    \A i, j \in 1..Len(flattenArray(callArgs)) :
      (/\ i < j /\ Inside(flattenArray(callArgs)[j], flattenArray(callArgs)[i])
       /\ \A k \in 1..i : flattenArray(callArgs)[k] # flattenArray(callArgs)[j])
        => flattenArray(callArgs)[j] \notin Range(callValue)

=============================================================================
